---- MODULE Spec2Model ----
(***************************************************************************)
(* json-dts-generator: the shape-inference and deduplication engine of     *)
(* src/src/core.ts (convertToType, createType, createCache, createHash,    *)
(* typeAlias).                                                             *)
(*                                                                         *)
(* Representation.                                                         *)
(*  - A JSON value is a record [kind, lit, items, props]: kind is the      *)
(*    branch _convertToType takes for it ("string", "number", "boolean",   *)
(*    "null", "array", "object"), lit the literal text of a primitive,     *)
(*    items the elements of an array, props the object's properties in     *)
(*    declaration order, each [key, val].                                  *)
(*  - A property key is a sequence of one-character strings, so that       *)
(*    identifierRegex and the default sort are computed on characters.     *)
(*  - A Type (core.ts:3) is a record [obj, str, props]: a string type      *)
(*    (obj = FALSE, str) or an object type (obj = TRUE, props a sequence   *)
(*    of [key, type] in insertion order).                                  *)
(*  - Declarations are objects on a heap: a Map holds references, and      *)
(*    `new Map(cache.map)` copies references, not declarations.            *)
(*  - cache.id is a closure over currentId; a cache record holds the       *)
(*    index of its closure in nextId, so `id: cache.id` shares it.         *)
(*  - SHA-1 is idealised as collision free: a digest is the tagged         *)
(*    serialisation it was computed from.                                  *)
(***************************************************************************)
EXTENDS Integers, Sequences, FiniteSets, TLC

VARIABLES caches, heap, nextId, calls, driver, output

vars == <<caches, heap, nextId, calls, driver, output>>

(* ---------------------------------------------------------------------- *)
(* Bounds                                                                 *)
(* ---------------------------------------------------------------------- *)

\* Number of Cache objects a behaviour makes: every createCache() and every
\* convertToType() call makes one.
MaxCaches == 3

(* ---------------------------------------------------------------------- *)
(* Characters and keys                                                    *)
(* ---------------------------------------------------------------------- *)

\* UTF-16 code units of the characters that occur in the modelled keys.
CharCode(c) ==
  CASE c = "$" -> 36
    [] c = "-" -> 45
    [] c = "0" -> 48
    [] c = "1" -> 49
    [] c = "_" -> 95
    [] c = "a" -> 97
    [] c = "b" -> 98
    [] c = "e" -> 101
    [] c = "f" -> 102
    [] c = "n" -> 110
    [] c = "o" -> 111
    [] c = "p" -> 112
    [] c = "r" -> 114
    [] c = "t" -> 116
    [] c = "w" -> 119

IsLetter(c) == (CharCode(c) >= 65 /\ CharCode(c) <= 90) \/ (CharCode(c) >= 97 /\ CharCode(c) <= 122)

IsDigit(c) == CharCode(c) >= 48 /\ CharCode(c) <= 57

\* /^[$_a-z][$_a-z0-9]*$/i
identifierRegex(key) ==
  /\ Len(key) >= 1
  /\ (key[1] = "$" \/ key[1] = "_" \/ IsLetter(key[1]))
  /\ \A i \in 2..Len(key) : key[i] = "$" \/ key[i] = "_" \/ IsLetter(key[i]) \/ IsDigit(key[i])

\* The key as a string.
RECURSIVE KeyStr(_)
KeyStr(key) == IF key = <<>> THEN "" ELSE Head(key) \o KeyStr(Tail(key))

\* The order of Array.prototype.sort() without a comparator: by code units,
\* a proper prefix first.
RECURSIVE KeyLess(_, _)
KeyLess(a, b) ==
  IF a = <<>> THEN b # <<>>
  ELSE IF b = <<>> THEN FALSE
  ELSE IF CharCode(Head(a)) # CharCode(Head(b)) THEN CharCode(Head(a)) < CharCode(Head(b))
  ELSE KeyLess(Tail(a), Tail(b))

RECURSIVE InsertKey(_, _)
InsertKey(sorted, key) ==
  IF sorted = <<>> THEN <<key>>
  ELSE IF KeyLess(key, Head(sorted)) THEN <<key>> \o sorted
  ELSE <<Head(sorted)>> \o InsertKey(Tail(sorted), key)

RECURSIVE SortKeys(_)
SortKeys(keys) == IF keys = <<>> THEN <<>> ELSE InsertKey(SortKeys(Tail(keys)), Head(keys))

\* Object.keys(x): the own keys in declaration order.
ObjectKeys(x) == [i \in 1..Len(x.props) |-> x.props[i].key]

\* x[key]
GetProp(x, key) == x.props[CHOOSE i \in 1..Len(x.props) : x.props[i].key = key].val

(* ---------------------------------------------------------------------- *)
(* JSON values                                                            *)
(* ---------------------------------------------------------------------- *)

JString(lit) == [kind |-> "string", lit |-> lit, items |-> <<>>, props |-> <<>>]
JNumber(lit) == [kind |-> "number", lit |-> lit, items |-> <<>>, props |-> <<>>]
JBoolean(lit) == [kind |-> "boolean", lit |-> lit, items |-> <<>>, props |-> <<>>]
JNull == [kind |-> "null", lit |-> "null", items |-> <<>>, props |-> <<>>]
JArray(items) == [kind |-> "array", lit |-> "", items |-> items, props |-> <<>>]
JObject(props) == [kind |-> "object", lit |-> "", items |-> <<>>, props |-> props]
P(key, val) == [key |-> key, val |-> val]

kFoo == <<"f", "o", "o">>
kBar == <<"b", "a", "r">>
kOne == <<"o", "n", "e">>
kTwo == <<"t", "w", "o">>
kDash == <<"a", "-", "b">>
kProto == <<"_", "_", "p", "r", "o", "t", "o", "_", "_">>

\* The inputs of convertToType.
JSONValues ==
  { JString("x"),
    JNumber("3"),
    JBoolean("true"),
    JNull,
    JArray(<<>>),
    JArray(<<JNumber("1"), JNumber("2"), JNumber("3")>>),
    JObject(<<>>),
    JObject(<<P(kFoo, JString("x")), P(kBar, JNumber("3"))>>),
    JObject(<<P(kBar, JNumber("4")), P(kFoo, JString("y"))>>),
    JObject(<<P(kFoo, JString("x"))>>),
    JObject(<<P(kFoo, JString("y"))>>),
    JObject(<<P(kProto, JNumber("3"))>>),
    JObject(<<P(kTwo, JArray(<<>>)), P(kOne, JArray(<<>>))>>),
    JObject(<<P(kFoo, JObject(<<P(kBar, JNumber("3"))>>))>>),
    JObject(<<P(kDash, JArray(<<JObject(<<>>)>>))>>),
    JArray(<<JObject(<<>>), JObject(<<P(kFoo, JString("x")), P(kBar, JNumber("3"))>>), JArray(<<>>)>>),
    JArray(<<JArray(<<JObject(<<>>)>>), JNumber("1")>>) }

\* The `file` argument; "" stands for an absent (or empty) label.
Files == {"", "a.json"}

(* ---------------------------------------------------------------------- *)
(* Types, hashes, the Map                                                 *)
(* ---------------------------------------------------------------------- *)

StringType(s) == [obj |-> FALSE, str |-> s, props |-> <<>>]
ObjectType(props) == [obj |-> TRUE, str |-> "", props |-> props]

\* typeObject[key] = t: an existing key keeps its place, a new one goes last.
\* typeObject is an ordinary object ({}), so the key "__proto__" names the
\* accessor of Object.prototype, whose setter ignores a value that is not
\* an object or null: t is a string, and no property is created.
SetTypeProp(typeObject, key, t) ==
  IF KeyStr(key) = "__proto__" THEN typeObject
  ELSE IF \E i \in 1..Len(typeObject.props) : typeObject.props[i].key = key
  THEN ObjectType([i \in 1..Len(typeObject.props) |->
         IF typeObject.props[i].key = key THEN [key |-> key, type |-> t] ELSE typeObject.props[i]])
  ELSE ObjectType(Append(typeObject.props, [key |-> key, type |-> t]))

RECURSIVE StringifyProps(_)
StringifyProps(props) ==
  IF props = <<>> THEN ""
  ELSE "\"" \o KeyStr(Head(props).key) \o "\":\"" \o Head(props).type \o "\""
       \o (IF Tail(props) = <<>> THEN "" ELSE ",")
       \o StringifyProps(Tail(props))

\* JSON.stringify(type)
JSONStringify(type) ==
  IF type.obj THEN "{" \o StringifyProps(type.props) \o "}"
  ELSE "\"" \o type.str \o "\""

\* crypto.createHash("sha1").update(JSON.stringify(type)).digest("base64")
createHash(type) == "sha1<" \o JSONStringify(type) \o ">"

\* "T" + id
typeAlias(id) == "T" \o ToString(id)

MapHas(map, key) == \E i \in 1..Len(map) : map[i].key = key

MapGet(map, key) == map[CHOOSE i \in 1..Len(map) : map[i].key = key].ref

\* A map that enumerates the latest key first.
MapSet_newestFirst(map, key, ref) ==
  IF MapHas(map, key)
  THEN [i \in 1..Len(map) |-> IF map[i].key = key THEN [key |-> key, ref |-> ref] ELSE map[i]]
  ELSE <<[key |-> key, ref |-> ref]>> \o map

\* Map.prototype.set: an existing key keeps its position.
MapSet(map, key, ref) ==
  IF MapHas(map, key)
  THEN [i \in 1..Len(map) |-> IF map[i].key = key THEN [key |-> key, ref |-> ref] ELSE map[i]]
  ELSE Append(map, [key |-> key, ref |-> ref])

(* ---------------------------------------------------------------------- *)
(* createType                                                             *)
(* ---------------------------------------------------------------------- *)

\* The state a convertToType call works on: newCache.map, the heap of
\* declarations, and currentId of the closure behind newCache.id.
\* An operation returns [st, type]: the state it leaves and the string it
\* returns.

\* A reuse path that takes an id it does not use.
createTypeReuse_consumesId(st, hash, context) ==
  LET declaration == MapGet(st.map, hash)
  IN [st |-> [st EXCEPT !.heap[declaration].contexts = Append(@, context), !.nextId = @ + 1],
      type |-> typeAlias(st.heap[declaration].id)]

\* A reuse path that keeps only the latest context.
createTypeReuse_overwrites(st, hash, context) ==
  LET declaration == MapGet(st.map, hash)
  IN [st |-> [st EXCEPT !.heap[declaration].contexts = <<context>>],
      type |-> typeAlias(st.heap[declaration].id)]

\* A reuse path that records a context only once.
createTypeReuse_dedupContexts(st, hash, context) ==
  LET declaration == MapGet(st.map, hash)
      contexts == st.heap[declaration].contexts
  IN [st |-> IF \E n \in 1..Len(contexts) : contexts[n] = context THEN st
             ELSE [st EXCEPT !.heap[declaration].contexts = Append(@, context)],
      type |-> typeAlias(st.heap[declaration].id)]

\* The reuse path (core.ts:100-104).
createTypeReuse(st, hash, context) ==
  LET declaration == MapGet(st.map, hash)
  IN [st |-> [st EXCEPT !.heap[declaration].contexts = Append(@, context)],
      type |-> typeAlias(st.heap[declaration].id)]

\* A registration path that forgets cache.map.set.
createTypeNew_notStored(st, type, hash, context, unique) ==
  LET id == st.nextId
  IN [st |-> [map |-> st.map,
              heap |-> Append(st.heap, [id |-> id, contexts |-> <<context>>, type |-> type]),
              nextId |-> id + 1],
      type |-> typeAlias(id)]

\* A registration path that appends the id to every key.
createTypeNew_alwaysPerturbed(st, type, hash, context, unique) ==
  LET id == st.nextId
  IN [st |-> [map |-> MapSet(st.map, hash \o ToString(id), Len(st.heap) + 1),
              heap |-> Append(st.heap, [id |-> id, contexts |-> <<context>>, type |-> type]),
              nextId |-> id + 1],
      type |-> typeAlias(id)]

\* The registration path (core.ts:106-115).
createTypeNew(st, type, hash, context, unique) ==
  LET id == st.nextId
      key == IF unique THEN hash \o ToString(id) ELSE hash
      typeDeclaration == [id |-> id, contexts |-> <<context>>, type |-> type]
      ref == Len(st.heap) + 1
  IN [st |-> [map |-> MapSet(st.map, key, ref),
              heap |-> Append(st.heap, typeDeclaration),
              nextId |-> id + 1],
      type |-> typeAlias(id)]

\* A createType whose map key depends on the origin path.
createType_hashesContext(st, type, context, unique) ==
  LET hash == createHash(type) \o context
  IN IF ~unique /\ MapHas(st.map, hash)
     THEN createTypeReuse(st, hash, context)
     ELSE createTypeNew(st, type, hash, context, unique)

\* A createType that never takes the reuse path.
createType_neverReuses(st, type, context, unique) ==
  createTypeNew(st, type, createHash(type), context, unique)

createType(st, type, context, unique) ==
  LET hash == createHash(type)
  IN IF ~unique /\ MapHas(st.map, hash)
     THEN createTypeReuse(st, hash, context)
     ELSE createTypeNew(st, type, hash, context, unique)

(* ---------------------------------------------------------------------- *)
(* _convertToType                                                         *)
(* ---------------------------------------------------------------------- *)

RECURSIVE _convertToType(_, _, _)
RECURSIVE convertKeys(_, _, _, _, _)

\* Primitive branches that give the primitive an alias.
convertPrimitive_registered(st, x, context) == createType(st, StringType(x.kind), context, FALSE)

\* typeof x is "string", "number", "boolean", or x === null.
convertPrimitive(st, x, context) == [st |-> st, type |-> x.kind]

\* A non-empty array branch that converts every element and returns the
\* type of the first.
RECURSIVE convertElements(_, _, _, _)
convertElements(st, x, context, i) ==
  IF i > Len(x.items) THEN st
  ELSE convertElements(_convertToType(st, x.items[i], context \o "[" \o ToString(i - 1) \o "]").st,
                       x, context, i + 1)

convertNonEmptyArray_allElements(st, x, context) ==
  LET typeOfFirstElement == _convertToType(st, x.items[1], context \o "[0]")
  IN [st |-> convertElements(typeOfFirstElement.st, x, context, 2),
      type |-> typeOfFirstElement.type \o "[]"]

\* A non-empty array branch that registers the composite type.
convertNonEmptyArray_registered(st, x, context) ==
  LET typeOfFirstElement == _convertToType(st, x.items[1], context \o "[0]")
  IN createType(typeOfFirstElement.st, StringType(typeOfFirstElement.type \o "[]"), context, FALSE)

\* A non-empty array branch that returns the element's type as it is.
convertNonEmptyArray_noSuffix(st, x, context) == _convertToType(st, x.items[1], context \o "[0]")

\* A non-empty array branch that converts the first element under the
\* path of the array itself.
convertNonEmptyArray_arrayContext(st, x, context) ==
  LET typeOfFirstElement == _convertToType(st, x.items[1], context)
  IN [st |-> typeOfFirstElement.st, type |-> typeOfFirstElement.type \o "[]"]

\* Array.isArray(x) && x.length
convertNonEmptyArray(st, x, context) ==
  LET typeOfFirstElement == _convertToType(st, x.items[1], context \o "[0]")
  IN [st |-> typeOfFirstElement.st, type |-> typeOfFirstElement.type \o "[]"]

\* An empty-array branch that registers the declaration and returns the
\* bare type string.
convertEmptyArray_bare(st, x, context) ==
  [st |-> createType(st, StringType("unknown[]"), context, TRUE).st, type |-> "unknown[]"]

\* An empty-array branch that leaves `unique` at its default.
convertEmptyArray_notUnique(st, x, context) == createType(st, StringType("unknown[]"), context, FALSE)

\* Array.isArray(x) && !x.length
convertEmptyArray(st, x, context) == createType(st, StringType("unknown[]"), context, TRUE)

\* The loop over Object.keys(x).sort(), from the key at the head of `keys`.
convertKeys(st, x, keys, context, typeObject) ==
  IF keys = <<>> THEN [st |-> st, type |-> typeObject]
  ELSE LET key == Head(keys)
           contextSuffix == IF identifierRegex(key)
                            THEN "." \o KeyStr(key)
                            ELSE "[\"" \o KeyStr(key) \o "\"]"
           r == _convertToType(st, GetProp(x, key), context \o contextSuffix)
       IN convertKeys(r.st, x, Tail(keys), context, SetTypeProp(typeObject, key, r.type))

\* An object branch that forces a new declaration for every empty object.
convertObject_emptyUnique(st, x, context) ==
  LET r == convertKeys(st, x, SortKeys(ObjectKeys(x)), context, ObjectType(<<>>))
  IN createType(r.st, r.type, context, r.type = ObjectType(<<>>))

\* An object branch that takes the keys in declaration order.
convertObject_unsorted(st, x, context) ==
  LET r == convertKeys(st, x, ObjectKeys(x), context, ObjectType(<<>>))
  IN createType(r.st, r.type, context, FALSE)

convertObject(st, x, context) ==
  LET r == convertKeys(st, x, SortKeys(ObjectKeys(x)), context, ObjectType(<<>>))
  IN createType(r.st, r.type, context, FALSE)

_convertToType(st, x, context) ==
  IF x.kind \in {"string", "number", "boolean", "null"} THEN convertPrimitive(st, x, context)
  ELSE IF x.kind = "array"
       THEN IF Len(x.items) # 0 THEN convertNonEmptyArray(st, x, context)
            ELSE convertEmptyArray(st, x, context)
       ELSE convertObject(st, x, context)

\* file ? file + ":root" : "root"
rootContext(file) == IF file # "" THEN file \o ":root" ELSE "root"

\* A convertToType that counts on a copy of the counter: the ids it takes
\* are not taken from the counter of the argument cache.
convertToType_privateCounter(cache, x, file) ==
  LET r == _convertToType([map |-> caches[cache].map,
                            heap |-> heap,
                            nextId |-> nextId[caches[cache].id]],
                           x, rootContext(file))
  IN [type |-> r.type, map |-> r.st.map, heap |-> r.st.heap,
      nextId |-> nextId[caches[cache].id]]

\* convertToType(caches[cache], x, file) in the current heap: the returned
\* type, the map of the returned cache, and the heap and counter it leaves.
convertToType(cache, x, file) ==
  LET r == _convertToType([map |-> caches[cache].map,
                            heap |-> heap,
                            nextId |-> nextId[caches[cache].id]],
                           x, rootContext(file))
  IN [type |-> r.type, map |-> r.st.map, heap |-> r.st.heap, nextId |-> r.st.nextId]

(* ---------------------------------------------------------------------- *)
(* output.ts                                                              *)
(* ---------------------------------------------------------------------- *)

\* Array.prototype.join
RECURSIVE Join(_, _)
Join(strings, separator) ==
  IF strings = <<>> THEN ""
  ELSE IF Len(strings) = 1 THEN strings[1]
  ELSE strings[1] \o separator \o Join(Tail(strings), separator)

\* A typeDeclaration that writes every key bare.
typeDeclarationProperty_neverQuoted(prop) == KeyStr(prop.key) \o ": " \o prop.type \o ";"

\* One element of `properties` (output.ts:16-20).
typeDeclarationProperty(prop) ==
  IF identifierRegex(prop.key)
  THEN KeyStr(prop.key) \o ": " \o prop.type \o ";"
  ELSE "\"" \o KeyStr(prop.key) \o "\": " \o prop.type \o ";"

\* `result` (output.ts:12-23).
typeDeclarationResult(type) ==
  IF ~type.obj THEN type.str
  ELSE LET properties == [i \in 1..Len(type.props) |-> typeDeclarationProperty(type.props[i])]
       IN IF Len(properties) # 0 THEN "{ " \o Join(properties, " ") \o " }" ELSE "{}"

typeDeclaration(declaration, exported, computed, includeContexts) ==
  LET name == typeAlias(declaration.id)
      result == typeDeclarationResult(declaration.type)
      typeDecl == (IF exported THEN "export " ELSE "") \o "type " \o name \o " = "
                    \o (IF computed THEN "C<" \o result \o ">" ELSE result) \o ";"
  IN IF includeContexts
     THEN typeDecl \o " // " \o Join(declaration.contexts, ", ")
     ELSE typeDecl

\* The text written ahead of the declarations when `computed` is set.
ComputeHelper ==
  "/**\n * Compute utility which makes resulting types easier to read\n"
    \o " * with IntelliSense by expanding them fully, instead of leaving\n"
    \o " * object properties with cryptic type names.\n */\n"
    \o "type C<A extends any> = {[K in keyof A]: A[K]} & {};"

\* The strings writeCommonDTS passes to out.write, in order.
writeCommonDTS(declarations, exportedTypes, computed, includeContexts) ==
  (IF computed THEN <<ComputeHelper, "\n\n">> ELSE <<>>)
    \o [n \in 1..(2 * Len(declarations)) |->
         IF n % 2 = 1
         THEN typeDeclaration(declarations[(n + 1) \div 2],
                              typeAlias(declarations[(n + 1) \div 2].id) \in exportedTypes,
                              computed, includeContexts)
         ELSE "\n"]

\* An input file below the input directory: the directories on its path
\* and its name without ".json".
FileName(file) == Join(file.dir \o <<file.stem \o ".json">>, "/")

\* path.relative(path.dirname(outputFile), outDir)
RelativePath(file) == Join([n \in 1..Len(file.dir) |-> ".."], "/")

relativeReExport(type, file, commonFile) ==
  LET relativePath == RelativePath(file)
      relativeImport == IF relativePath # ""
                        THEN relativePath \o "/" \o commonFile
                        ELSE "./" \o commonFile
  IN "export { " \o type \o " as default } from \"" \o relativeImport \o "\";"

(* ---------------------------------------------------------------------- *)
(* The state machine                                                      *)
(* ---------------------------------------------------------------------- *)

\* caches : the Cache objects made so far, [map, id]: map a sequence of
\*          [key, ref] in insertion order, id the index of its closure.
\* heap   : the TypeDeclaration objects, [id, contexts, type].
\* nextId : currentId of each createCache() closure.
\* calls  : the convertToType calls made so far, with the heap and the
\*          counter before and after each.
\* driver : the position and the locals of the script that is running, if
\*          one is; [pc |-> "none"] for direct use of the library.
\* output : what has been written so far, [to, text] per write.
Init ==
  /\ caches = <<>>
  /\ heap = <<>>
  /\ nextId = <<>>
  /\ calls = <<>>
  /\ driver = [pc |-> "none"]
  /\ output = <<>>

\* A createCache whose caches all count with one module-level currentId.
createCache_sharedCounter ==
  /\ Len(caches) < MaxCaches
  /\ nextId' = IF nextId = <<>> THEN <<0>> ELSE nextId
  /\ caches' = Append(caches, [map |-> <<>>, id |-> 1])
  /\ UNCHANGED <<heap, calls, driver, output>>

createCache ==
  /\ Len(caches) < MaxCaches
  /\ nextId' = Append(nextId, 0)
  /\ caches' = Append(caches, [map |-> <<>>, id |-> Len(nextId) + 1])
  /\ UNCHANGED <<heap, calls, driver, output>>

Convert(cache, x, file) ==
  /\ Len(caches) < MaxCaches
  /\ LET r == convertToType(cache, x, file)
         id == caches[cache].id
     IN /\ caches' = Append(caches, [map |-> r.map, id |-> id])
        /\ heap' = r.heap
        /\ nextId' = [nextId EXCEPT ![id] = r.nextId]
        /\ calls' = Append(calls, [cache |-> cache, x |-> x, file |-> file,
                                   type |-> r.type, out |-> Len(caches) + 1,
                                   heapBefore |-> heap, heapAfter |-> r.heap,
                                   idBefore |-> nextId[id], idAfter |-> r.nextId])
  /\ UNCHANGED <<driver, output>>

Next ==
  \/ createCache
  \/ \E cache \in 1..Len(caches), x \in JSONValues, file \in Files : Convert(cache, x, file)

Spec == Init /\ [][Next]_vars

\* A function passed where a JSONValue is expected: no typeof test of
\* core.ts:37-48 matches it, it is not an array, and Object.keys of it is
\* empty, so that it takes the object branch as a value without keys.
JFunction == [kind |-> "function", lit |-> "", items |-> <<>>, props |-> <<>>]

\* Inputs of a caller that does not keep to the JSONValue type.
AnyValues ==
  { JFunction,
    JArray(<<JFunction>>),
    JObject(<<P(kFoo, JFunction)>>),
    JObject(<<>>),
    JObject(<<P(kFoo, JString("x"))>>),
    JNumber("3") }

ConvertAny ==
  \E cache \in 1..Len(caches), x \in AnyValues, file \in Files : Convert(cache, x, file)

NextAny == createCache \/ ConvertAny

SpecAny == Init /\ [][NextAny]_vars

\* convertToType({ map: cache.map, id: createCache().id }, x, file): a call
\* on a Cache (core.ts:17-21) put together from the map of one cache and
\* the counter of a new one.
ConvertAssembled(cache, x, file) ==
  /\ Len(caches) < MaxCaches
  /\ LET r == _convertToType([map |-> caches[cache].map, heap |-> heap, nextId |-> 0],
                             x, rootContext(file))
         id == Len(nextId) + 1
     IN /\ caches' = Append(caches, [map |-> r.st.map, id |-> id])
        /\ heap' = r.st.heap
        /\ nextId' = Append(nextId, r.st.nextId)
        /\ calls' = Append(calls, [cache |-> cache, x |-> x, file |-> file,
                                   type |-> r.type, out |-> Len(caches) + 1,
                                   heapBefore |-> heap, heapAfter |-> r.st.heap,
                                   idBefore |-> 0, idAfter |-> r.st.nextId])
  /\ UNCHANGED <<driver, output>>

\* Inputs of the calls on assembled caches.
AssembledValues ==
  { JArray(<<>>),
    JObject(<<>>),
    JObject(<<P(kTwo, JArray(<<>>)), P(kOne, JArray(<<>>))>>),
    JObject(<<P(kFoo, JObject(<<P(kBar, JNumber("3"))>>))>>) }

NextAssembled ==
  \/ createCache
  \/ \E cache \in 1..Len(caches), x \in AssembledValues, file \in Files :
       Convert(cache, x, file)
  \/ \E cache \in 1..Len(caches), x \in AssembledValues, file \in Files :
       ConvertAssembled(cache, x, file)

SpecAssembled == Init /\ [][NextAssembled]_vars

(* ---------------------------------------------------------------------- *)
(* The script (json-dts.ts)                                               *)
(* ---------------------------------------------------------------------- *)

\* Number of JSON files below the input directory.
MaxFiles == 2

COMMON_FILE == "_common"
COMMON_DTS == COMMON_FILE \o ".d.ts"

\* An UNKNOWN_ARRAY_WARNING that names the first declaration only.
UNKNOWN_ARRAY_WARNING_firstOnly(declarations) ==
  "The proper array type for the following type aliases could not be\n"
    \o "inferred because the provided JSON featured empty arrays:\n\n"
    \o "  type " \o typeAlias(declarations[1].id) \o ", derived from "
    \o declarations[1].contexts[1]
    \o "\n\nThese type aliases have been given the type \"unknown[]\". Opening\n"
    \o COMMON_DTS \o " and manually providing the proper types is recommended."

UNKNOWN_ARRAY_WARNING(declarations) ==
  LET unfinishedTypeAliases ==
        Join([n \in 1..Len(declarations) |->
                "  type " \o typeAlias(declarations[n].id) \o ", derived from "
                  \o declarations[n].contexts[1]], "\n")
  IN "The proper array type for the following type aliases could not be\n"
       \o "inferred because the provided JSON featured empty arrays:\n\n"
       \o unfinishedTypeAliases
       \o "\n\nThese type aliases have been given the type \"unknown[]\". Opening\n"
       \o COMMON_DTS \o " and manually providing the proper types is recommended."

\* The paths glob.sync can return, relative to the input directory.
InputNames ==
  { [dir |-> <<>>, stem |-> "a"],
    [dir |-> <<"sub">>, stem |-> "b"],
    [dir |-> <<>>, stem |-> "c"] }

\* What readJSONSync can return for a file.
InputValues ==
  { JNumber("3"),
    JArray(<<>>),
    JArray(<<JObject(<<P(kFoo, JString("x"))>>)>>),
    JObject(<<P(kFoo, JString("x"))>>),
    JObject(<<P(kTwo, JArray(<<>>)), P(kOne, JArray(<<>>))>>),
    JObject(<<P(kFoo, JObject(<<P(kBar, JNumber("3"))>>))>>) }

\* The lists of input files: up to MaxFiles different paths, each with
\* the JSON value it holds.
InputFileLists ==
  UNION { { files \in [1..n -> [file : InputNames, json : InputValues]] :
              \A i, j \in 1..n : i # j => files[i].file # files[j].file }
          : n \in 0..MaxFiles }

\* One write: the stream or file written to, the text, and the line of
\* json-dts.ts that writes it.
Write(to, text, line) == [to |-> to, text |-> text, line |-> line]

\* The script is started on a directory of input files.
InitDriver ==
  /\ caches = <<>>
  /\ heap = <<>>
  /\ nextId = <<>>
  /\ calls = <<>>
  /\ output = <<>>
  /\ \E files \in InputFileLists :
       driver = [pc |-> "start", inputFiles |-> files, currentFile |-> 1, cache |-> 0,
                 exportedTypes |-> {}, unknownArrays |-> <<>>]

\* json-dts.ts:67-75
DriverStart ==
  /\ driver.pc = "start"
  /\ nextId' = Append(nextId, 0)
  /\ caches' = Append(caches, [map |-> <<>>, id |-> Len(nextId) + 1])
  /\ driver' = [driver EXCEPT !.pc = "loop", !.cache = Len(caches) + 1]
  /\ output' = Append(output, Write("console", "Parsing JSON files...", 75))
  /\ UNCHANGED <<heap, calls>>

\* One pass of the loop, json-dts.ts:76-91.
DriverFile ==
  /\ driver.pc = "loop"
  /\ driver.currentFile <= Len(driver.inputFiles)
  /\ \E file \in {driver.inputFiles[driver.currentFile].file},
        json \in {driver.inputFiles[driver.currentFile].json} :
     \E result \in {convertToType(driver.cache, json, FileName(file))},
        id \in {caches[driver.cache].id},
        outputFile \in {Join(file.dir \o <<file.stem \o ".d.ts">>, "/")} :
        /\ caches' = Append(caches, [map |-> result.map, id |-> id])
        /\ heap' = result.heap
        /\ nextId' = [nextId EXCEPT ![id] = result.nextId]
        /\ calls' = Append(calls, [cache |-> driver.cache, x |-> json, file |-> FileName(file),
                                   type |-> result.type, out |-> Len(caches) + 1,
                                   heapBefore |-> heap, heapAfter |-> result.heap,
                                   idBefore |-> nextId[id], idAfter |-> result.nextId])
        /\ driver' = [driver EXCEPT !.exportedTypes = @ \cup {result.type},
                                    !.cache = Len(caches) + 1,
                                    !.currentFile = @ + 1]
        /\ output' = output \o
             << Write(outputFile, relativeReExport(result.type, file, COMMON_FILE), 84),
                Write("console",
                      "Finished file " \o ToString(driver.currentFile) \o " of "
                        \o ToString(Len(driver.inputFiles)) \o ": " \o FileName(file), 89) >>

\* json-dts.ts:93-98
DriverWrite ==
  /\ driver.pc = "loop"
  /\ driver.currentFile > Len(driver.inputFiles)
  /\ \E declarations \in {[i \in 1..Len(caches[driver.cache].map) |->
                               heap[caches[driver.cache].map[i].ref]]} :
     \E written \in {writeCommonDTS(declarations, driver.exportedTypes, TRUE, TRUE)} :
        output' = output
          \o <<Write("console", "Creating " \o COMMON_DTS \o " file...", 93)>>
          \o [n \in 1..Len(written) |-> Write(COMMON_DTS, written[n], 95)]
  /\ driver' = [driver EXCEPT !.pc = "collect"]
  /\ UNCHANGED <<caches, heap, nextId, calls>>

\* json-dts.ts:100-108
DriverCollect ==
  /\ driver.pc = "collect"
  /\ LET declarations == [i \in 1..Len(caches[driver.cache].map) |->
                            heap[caches[driver.cache].map[i].ref]]
         IsUnknownArray(declaration) == declaration.type = StringType("unknown[]")
     IN driver' = [driver EXCEPT !.pc = "warn",
                                 !.unknownArrays = SelectSeq(declarations, IsUnknownArray)]
  /\ output' = Append(output, Write("console", COMMON_DTS \o " created successfully.", 108))
  /\ UNCHANGED <<caches, heap, nextId, calls>>

\* json-dts.ts:110-112
DriverWarn ==
  /\ driver.pc = "warn"
  /\ output' = IF Len(driver.unknownArrays) # 0
               THEN Append(output, Write("console",
                                         "\n" \o UNKNOWN_ARRAY_WARNING(driver.unknownArrays), 111))
               ELSE output
  /\ driver' = [driver EXCEPT !.pc = "done"]
  /\ UNCHANGED <<caches, heap, nextId, calls>>

NextDriver == DriverStart \/ DriverFile \/ DriverWrite \/ DriverCollect \/ DriverWarn

SpecDriver == InitDriver /\ [][NextDriver]_vars

(* ---------------------------------------------------------------------- *)
(* typeDeclaration on its own                                             *)
(* ---------------------------------------------------------------------- *)

kA == <<"a">>

\* The declarations and options typeDeclaration is applied to.
RenderTypes ==
  { StringType("string"),
    StringType("unknown[]"),
    ObjectType(<<>>),
    ObjectType(<<[key |-> kA, type |-> "string"]>>),
    ObjectType(<<[key |-> kFoo, type |-> "number"], [key |-> kBar, type |-> "string"]>>),
    ObjectType(<<[key |-> kDash, type |-> "T0[]"], [key |-> kFoo, type |-> "T1"]>>) }

RenderDeclarations ==
  [id : {0, 12}, type : RenderTypes, contexts : {<<>>, <<"root">>, <<"foo", "bar">>}]

InitRender ==
  /\ caches = <<>>
  /\ heap = <<>>
  /\ nextId = <<>>
  /\ calls = <<>>
  /\ output = <<>>
  /\ \E declaration \in RenderDeclarations, exported, computed, includeContexts \in BOOLEAN :
       driver = [pc |-> "render", declaration |-> declaration, exported |-> exported,
                 computed |-> computed, includeContexts |-> includeContexts]

\* One call of typeDeclaration; its result is kept in `output`.
Render ==
  /\ driver.pc = "render"
  /\ output' = <<Write("result",
                       typeDeclaration(driver.declaration, driver.exported, driver.computed,
                                       driver.includeContexts), 33)>>
  /\ driver' = [driver EXCEPT !.pc = "rendered"]
  /\ UNCHANGED <<caches, heap, nextId, calls>>

NextRender == Render

SpecRender == InitRender /\ [][NextRender]_vars

(* ---------------------------------------------------------------------- *)
(* Top-level inputs normalized in parallel on one cache                   *)
(* ---------------------------------------------------------------------- *)

\* Number of inputs normalized at the same time.
MaxInputs == 2

\* The traversal of _convertToType as far as the results of its earlier
\* createType calls, `results`, take it: either it ends with the type of x
\* (need = FALSE), or it stands at its next createType call (need = TRUE)
\* with the arguments type, context and unique of that call.
RECURSIVE Replay(_, _, _)
RECURSIVE ReplayKeys(_, _, _, _, _)
Replay(x, context, results) ==
  IF x.kind \in {"string", "number", "boolean", "null"}
  THEN [need |-> FALSE, result |-> x.kind, results |-> results]
  ELSE IF x.kind = "array"
  THEN IF Len(x.items) # 0
       THEN LET typeOfFirstElement == Replay(x.items[1], context \o "[0]", results)
            IN IF typeOfFirstElement.need THEN typeOfFirstElement
               ELSE [need |-> FALSE, result |-> typeOfFirstElement.result \o "[]",
                     results |-> typeOfFirstElement.results]
       ELSE IF results = <<>>
            THEN [need |-> TRUE, type |-> StringType("unknown[]"), context |-> context,
                  unique |-> TRUE]
            ELSE [need |-> FALSE, result |-> Head(results), results |-> Tail(results)]
  ELSE ReplayKeys(x, SortKeys(ObjectKeys(x)), context, ObjectType(<<>>), results)

ReplayKeys(x, keys, context, typeObject, results) ==
  IF keys = <<>>
  THEN IF results = <<>>
       THEN [need |-> TRUE, type |-> typeObject, context |-> context, unique |-> FALSE]
       ELSE [need |-> FALSE, result |-> Head(results), results |-> Tail(results)]
  ELSE LET key == Head(keys)
           contextSuffix == IF identifierRegex(key)
                            THEN "." \o KeyStr(key)
                            ELSE "[\"" \o KeyStr(key) \o "\"]"
           r == Replay(GetProp(x, key), context \o contextSuffix, results)
       IN IF r.need THEN r
          ELSE ReplayKeys(x, Tail(keys), context, SetTypeProp(typeObject, key, r.result),
                          r.results)

\* The inputs normalized in parallel.
ParallelValues ==
  { JObject(<<P(kFoo, JObject(<<P(kBar, JNumber("3"))>>))>>),
    JObject(<<P(kBar, JNumber("4"))>>),
    JObject(<<P(kTwo, JArray(<<>>)), P(kOne, JArray(<<>>))>>),
    JArray(<<JObject(<<P(kBar, JNumber("3"))>>)>>),
    JNumber("3") }

\* The origin label of the n-th input.
ParallelFile(n) == ToString(n) \o ".json"

\* One cache from createCache(), and the inputs to normalize against it.
InitParallel ==
  /\ caches = <<[map |-> <<>>, id |-> 1]>>
  /\ heap = <<>>
  /\ nextId = <<0>>
  /\ calls = <<>>
  /\ output = <<>>
  /\ \E n \in 1..MaxInputs :
       \E inputs \in [1..n -> ParallelValues] :
         driver = [pc |-> "parallel", inputs |-> inputs, results |-> [i \in 1..n |-> <<>>]]

\* The normalization of input p makes its next createType call, as one
\* step, on the shared cache.
ParallelRegister(p) ==
  /\ driver.pc = "parallel"
  /\ LET r == Replay(driver.inputs[p], rootContext(ParallelFile(p)), driver.results[p])
     IN /\ r.need
        /\ LET c == createType([map |-> caches[1].map, heap |-> heap, nextId |-> nextId[1]],
                               r.type, r.context, r.unique)
           IN /\ caches' = <<[map |-> c.st.map, id |-> 1]>>
              /\ heap' = c.st.heap
              /\ nextId' = <<c.st.nextId>>
              /\ driver' = [driver EXCEPT !.results[p] = Append(@, c.type)]
  /\ UNCHANGED <<calls, output>>

NextParallel == \E p \in 1..Len(driver.inputs) : ParallelRegister(p)

SpecParallel == InitParallel /\ [][NextParallel]_vars

(* ---------------------------------------------------------------------- *)
(* Vocabulary of the properties                                           *)
(* ---------------------------------------------------------------------- *)

PrimitiveNames == {"string", "number", "boolean", "null"}

IsPrimitive(x) == x.kind \in PrimitiveNames

IsEmptyArray(x) == x.kind = "array" /\ Len(x.items) = 0

IsNonEmptyArray(x) == x.kind = "array" /\ Len(x.items) # 0

\* No empty array anywhere in x.
RECURSIVE NoEmptyArrays(_)
NoEmptyArrays(x) ==
  IF x.kind = "array"
  THEN Len(x.items) # 0 /\ \A i \in 1..Len(x.items) : NoEmptyArrays(x.items[i])
  ELSE \A i \in 1..Len(x.props) : NoEmptyArrays(x.props[i].val)

KeySet(x) == {x.props[i].key : i \in 1..Len(x.props)}

\* Same canonical structure: same kind, the same key set with the same
\* shapes below each key, arrays by their first element.
RECURSIVE SameShape(_, _)
SameShape(a, b) ==
  /\ a.kind = b.kind
  /\ a.kind = "array" =>
       /\ Len(a.items) = 0 <=> Len(b.items) = 0
       /\ Len(a.items) # 0 => SameShape(a.items[1], b.items[1])
  /\ a.kind = "object" =>
       /\ KeySet(a) = KeySet(b)
       /\ \A key \in KeySet(a) : SameShape(GetProp(a, key), GetProp(b, key))

\* The origin paths of the empty arrays a traversal of x from `context`
\* reaches: below every key of an object, below index 0 of an array.
RECURSIVE EmptyArrayPaths(_, _)
EmptyArrayPaths(x, context) ==
  IF x.kind = "array"
  THEN IF Len(x.items) = 0 THEN {context}
       ELSE EmptyArrayPaths(x.items[1], context \o "[0]")
  ELSE UNION { EmptyArrayPaths(x.props[i].val,
                 context \o (IF identifierRegex(x.props[i].key)
                             THEN "." \o KeyStr(x.props[i].key)
                             ELSE "[\"" \o KeyStr(x.props[i].key) \o "\"]"))
               : i \in 1..Len(x.props) }

\* The number of non-empty array levels at the root of x, and the value
\* below them.
RECURSIVE ArrayDepth(_)
ArrayDepth(x) == IF IsNonEmptyArray(x) THEN 1 + ArrayDepth(x.items[1]) ELSE 0

RECURSIVE Innermost(_)
Innermost(x) == IF IsNonEmptyArray(x) THEN Innermost(x.items[1]) ELSE x

RECURSIVE Brackets(_, _)
Brackets(base, n) == IF n = 0 THEN base ELSE Brackets(base, n - 1) \o "[]"

\* The entries of `map` whose declaration, in heap h, has the alias `alias`.
Resolve(map, h, alias) == {i \in 1..Len(map) : typeAlias(h[map[i].ref].id) = alias}

\* The entries of `map` whose declaration has the type "unknown[]".
UnknownArrays(map, h) == {i \in 1..Len(map) : h[map[i].ref].type = StringType("unknown[]")}

\* The declarations of `map` as heap h shows them, in the map's order.
Declarations(map, h) == [i \in 1..Len(map) |-> h[map[i].ref]]

\* The map of the cache call c was given, and of the cache it returned.
MapIn(c) == caches[c.cache].map
MapOut(c) == caches[c.out].map

\* Call j was given the cache call i returned.
Threaded(i, j) == i \in 1..Len(calls) /\ j \in 1..Len(calls) /\ calls[j].cache = calls[i].out

\* label occurs in contexts before later does.
Before(contexts, label, later) ==
  \E m, n \in 1..Len(contexts) : m < n /\ contexts[m] = label /\ contexts[n] = later

(* ---------------------------------------------------------------------- *)
(* C1  Deduplication                                                      *)
(* ---------------------------------------------------------------------- *)

C2_EmptyArraysUnique ==
  /\ \A d \in 1..Len(heap) :
       heap[d].type = StringType("unknown[]") => Len(heap[d].contexts) = 1
  /\ \A c \in 1..Len(caches) :
       \A m, n \in UnknownArrays(caches[c].map, heap) :
         m # n => /\ heap[caches[c].map[m].ref].id # heap[caches[c].map[n].ref].id
                  /\ caches[c].map[m].ref # caches[c].map[n].ref
  /\ \A k \in 1..Len(calls) :
       LET c == calls[k]
           old == UnknownArrays(MapIn(c), c.heapAfter)
           new == UnknownArrays(MapOut(c), c.heapAfter)
           paths == EmptyArrayPaths(c.x, rootContext(c.file))
       IN /\ Cardinality(new) = Cardinality(old) + Cardinality(paths)
          /\ {MapOut(c)[e].ref : e \in old} \subseteq {MapOut(c)[e].ref : e \in new}
          /\ { c.heapAfter[MapOut(c)[e].ref].contexts :
                 e \in {n \in new : MapOut(c)[n].ref > Len(c.heapBefore)} }
             = {<<path>> : path \in paths}

\* Two empty arrays visited at the same origin path, one call after the
\* other on the threaded cache.
C2_Witness ==
  \E i, j \in 1..Len(calls) :
    /\ Threaded(i, j)
    /\ IsEmptyArray(calls[i].x) /\ IsEmptyArray(calls[j].x)
    /\ calls[i].file = calls[j].file
    /\ calls[i].type # calls[j].type

(* ---------------------------------------------------------------------- *)
(* C3  The form of the result string                                      *)
(* ---------------------------------------------------------------------- *)

\* The aliases convertToType call c can return: those of the ids allocated
\* before it returns.
AliasesOf(c) == {typeAlias(id) : id \in 0..(c.idAfter - 1)}

\* C3 as stated: the result of every convertToType call is one of "string",
\* "number", "boolean", "null", or an alias "T<id>".
C3_PrimitiveOrAlias ==
  \A k \in 1..Len(calls) : calls[k].type \in PrimitiveNames \cup AliasesOf(calls[k])

\* C3, amended: the result of every convertToType call is a primitive type
\* name or an alias "T<id>", followed by one "[]" for each level of
\* non-empty array at the root of the value; the name is a primitive one
\* exactly when the value below those levels is a primitive.
C3_PrimitiveOrAliasWithBrackets ==
  \A k \in 1..Len(calls) :
    \E base \in PrimitiveNames \cup AliasesOf(calls[k]) :
      /\ calls[k].type = Brackets(base, ArrayDepth(calls[k].x))
      /\ base \in PrimitiveNames <=> IsPrimitive(Innermost(calls[k].x))
      /\ IsPrimitive(Innermost(calls[k].x)) => base = Innermost(calls[k].x).kind

\* An array of arrays of objects, whose result carries two suffixes.
C3_Witness ==
  \E k \in 1..Len(calls) : ArrayDepth(calls[k].x) = 2 /\ calls[k].type = "T0[][]"

(* ---------------------------------------------------------------------- *)
(* C4  Purity with respect to the cache argument                          *)
(* ---------------------------------------------------------------------- *)

\* C4: a convertToType call leaves the cache it was given unchanged: every
\* declaration reachable from that cache's map has the same id, type and
\* contexts after the call as before it.
C4_ArgumentUnchanged ==
  \A k \in 1..Len(calls) :
    Declarations(MapIn(calls[k]), calls[k].heapAfter)
      = Declarations(MapIn(calls[k]), calls[k].heapBefore)

(* ---------------------------------------------------------------------- *)
(* C5  Dense ids                                                          *)
(* ---------------------------------------------------------------------- *)

\* C5: in every cache obtained from createCache() by convertToType calls,
\* each given any earlier cache, the ids of the map's declarations are
\* exactly 0 .. n-1, n the number of entries of the map.
C5_DenseIds ==
  \A c \in 1..Len(caches) :
    {heap[caches[c].map[i].ref].id : i \in 1..Len(caches[c].map)} = 0..(Len(caches[c].map) - 1)

(* ---------------------------------------------------------------------- *)
(* C6  Aliases of composite values resolve                                *)
(* ---------------------------------------------------------------------- *)

\* The type recorded for `key` in object type t.
PropType(t, key) == t.props[CHOOSE i \in 1..Len(t.props) : t.props[i].key = key].type

\* `alias`, returned for the object or empty array x, is the alias of exactly
\* one declaration of `map`, and so are, level by level, the aliases that
\* declaration records for the objects and empty arrays below x's keys.
RECURSIVE ResolvesDeep(_, _, _, _)
ResolvesDeep(map, h, alias, x) ==
  /\ Cardinality(Resolve(map, h, alias)) = 1
  /\ x.kind = "object" =>
       \A e \in Resolve(map, h, alias) :
         /\ h[map[e].ref].type.obj
         /\ \A key \in KeySet(x) :
              (GetProp(x, key).kind = "object" \/ IsEmptyArray(GetProp(x, key)))
              => ResolvesDeep(map, h, PropType(h[map[e].ref].type, key), GetProp(x, key))

\* C6 as stated: for every object or array, the result of convertToType is
\* the alias of exactly one declaration of the returned cache's map.
C6_CompositeAliasResolves ==
  \A k \in 1..Len(calls) :
    calls[k].x.kind \in {"array", "object"}
    => Cardinality(Resolve(MapOut(calls[k]), calls[k].heapAfter, calls[k].type)) = 1

\* C6, amended: for every object and every empty array, at the root or
\* below the keys of an object, the result of convertToType is the alias of
\* exactly one declaration of the returned cache's map.
C6_ObjectOrEmptyArrayAliasResolves ==
  \A k \in 1..Len(calls) :
    (calls[k].x.kind = "object" \/ IsEmptyArray(calls[k].x))
    => ResolvesDeep(MapOut(calls[k]), calls[k].heapAfter, calls[k].type, calls[k].x)

\* An object holding an object, converted on a cache that already has entries.
C6_Witness ==
  \E k \in 1..Len(calls) :
    /\ calls[k].x.kind = "object"
    /\ \E key \in KeySet(calls[k].x) : GetProp(calls[k].x, key).kind = "object"
    /\ MapIn(calls[k]) # <<>>
    /\ Len(MapOut(calls[k])) > Len(MapIn(calls[k]))

(* ---------------------------------------------------------------------- *)
(* C7  Determinism                                                        *)
(* ---------------------------------------------------------------------- *)

\* C7: two convertToType calls given the same cache, the same value and the
\* same origin label return the same result string and caches with the same
\* declarations (ids, types and contexts).
C7_Deterministic ==
  \A i, j \in 1..Len(calls) :
    ( /\ calls[i].cache = calls[j].cache
      /\ calls[i].x = calls[j].x
      /\ calls[i].file = calls[j].file )
    => /\ calls[i].type = calls[j].type
       /\ Declarations(MapOut(calls[i]), calls[i].heapAfter)
            = Declarations(MapOut(calls[j]), calls[j].heapAfter)

(* ---------------------------------------------------------------------- *)
(* C8  Primitives are never registered                                    *)
(* ---------------------------------------------------------------------- *)

\* C8: for a string, number, boolean or null at the root convertToType
\* returns "string", "number", "boolean" or "null" respectively, the
\* returned cache's map has the entries of the given cache's map, no
\* declaration is created or changed, and the id counter is not advanced.
C8_PrimitivesNotRegistered ==
  \A k \in 1..Len(calls) :
    IsPrimitive(calls[k].x)
    => /\ calls[k].x.kind = "string" => calls[k].type = "string"
       /\ calls[k].x.kind = "number" => calls[k].type = "number"
       /\ calls[k].x.kind = "boolean" => calls[k].type = "boolean"
       /\ calls[k].x.kind = "null" => calls[k].type = "null"
       /\ MapOut(calls[k]) = MapIn(calls[k])
       /\ calls[k].heapAfter = calls[k].heapBefore
       /\ calls[k].idAfter = calls[k].idBefore

\* A primitive converted on a cache that already has entries.
C8_Witness ==
  \E k \in 1..Len(calls) :
    /\ IsPrimitive(calls[k].x)
    /\ MapIn(calls[k]) # <<>>
    /\ calls[k].idBefore > 0

(* ---------------------------------------------------------------------- *)
(* C9  Non-empty arrays consult index 0 only                              *)
(* ---------------------------------------------------------------------- *)

\* What converting x at `context` does from the state call c started in.
FromStateOf(c, x, context) ==
  _convertToType([map |-> MapIn(c), heap |-> c.heapBefore, nextId |-> c.idBefore], x, context)

\* C9: for a non-empty array the result is the result of converting its
\* element 0 (at the array's context followed by "[0]") followed by "[]";
\* the map, the declarations with their contexts, and the id counter are
\* left exactly as that conversion of element 0 leaves them, so nothing is
\* registered for the array itself and the elements from index 1 on have no
\* effect.
C9_FirstElementOnly ==
  \A k \in 1..Len(calls) :
    IsNonEmptyArray(calls[k].x)
    => LET first == FromStateOf(calls[k], calls[k].x.items[1], rootContext(calls[k].file) \o "[0]")
       IN /\ calls[k].type = first.type \o "[]"
          /\ MapOut(calls[k]) = first.st.map
          /\ calls[k].heapAfter = first.st.heap
          /\ calls[k].idAfter = first.st.nextId
          /\ Resolve(MapOut(calls[k]), calls[k].heapAfter, calls[k].type) = {}

\* An array whose element 0 is an object and whose later elements are an
\* object of another shape and an empty array.
C9_Witness ==
  \E k \in 1..Len(calls) :
    /\ IsNonEmptyArray(calls[k].x)
    /\ Len(calls[k].x.items) >= 3
    /\ calls[k].x.items[1].kind = "object"
    /\ ~SameShape(calls[k].x.items[2], calls[k].x.items[1])
    /\ IsEmptyArray(calls[k].x.items[3])
    /\ Len(MapOut(calls[k])) = Len(MapIn(calls[k])) + 1

(* ---------------------------------------------------------------------- *)
(* C10  Array composites and the cache                                    *)
(* ---------------------------------------------------------------------- *)

\* C10 as stated: converting a non-empty array registers its composite type
\* (the element's result followed by "[]") in the cache, so that the array
\* gets an alias of a declaration with that type.
C10_ArrayCompositeRegistered ==
  \A k \in 1..Len(calls) :
    IsNonEmptyArray(calls[k].x)
    => \E e \in 1..Len(MapOut(calls[k])) :
         /\ ~calls[k].heapAfter[MapOut(calls[k])[e].ref].type.obj
         /\ calls[k].heapAfter[MapOut(calls[k])[e].ref].type.str # "unknown[]"
         /\ calls[k].type = typeAlias(calls[k].heapAfter[MapOut(calls[k])[e].ref].id)

\* The traversal of x reaches no empty array.
VisitsNoEmptyArray(x) == EmptyArrayPaths(x, "") = {}

\* C10, amended: array composites are not cache types. Converting a
\* non-empty array registers nothing under the composite string: the only
\* string type a declaration ever has is "unknown[]", and the array's result
\* is the alias of no declaration. A second array with the same element
\* shape (no empty array reached), converted on the cache the first call
\* returned, gets the same composite string and adds no declaration; when
\* the element is an object, the element's declaration is reused and gains
\* the second array's element context as its last context.
C10_ArrayCompositeNotRegistered ==
  /\ \A d \in 1..Len(heap) : ~heap[d].type.obj => heap[d].type.str = "unknown[]"
  /\ \A k \in 1..Len(calls) :
       IsNonEmptyArray(calls[k].x)
       => Resolve(MapOut(calls[k]), calls[k].heapAfter, calls[k].type) = {}
  /\ \A i, j \in 1..Len(calls) :
       ( /\ Threaded(i, j)
         /\ IsNonEmptyArray(calls[i].x) /\ IsNonEmptyArray(calls[j].x)
         /\ SameShape(calls[i].x, calls[j].x)
         /\ VisitsNoEmptyArray(calls[i].x) /\ VisitsNoEmptyArray(calls[j].x) )
       => /\ calls[j].type = calls[i].type
          /\ MapOut(calls[j]) = MapIn(calls[j])
          /\ Len(calls[j].heapAfter) = Len(calls[j].heapBefore)
          /\ calls[j].x.items[1].kind = "object" =>
               \E e \in 1..Len(MapOut(calls[j])) :
                 LET ref == MapOut(calls[j])[e].ref
                 IN /\ calls[j].type = typeAlias(calls[j].heapAfter[ref].id) \o "[]"
                    /\ calls[j].heapAfter[ref].contexts
                         = Append(calls[j].heapBefore[ref].contexts,
                                  rootContext(calls[j].file) \o "[0]")

\* Two arrays of objects of one shape, the second on the cache the first
\* call returned.
C10_Witness ==
  \E i, j \in 1..Len(calls) :
    /\ Threaded(i, j)
    /\ IsNonEmptyArray(calls[i].x) /\ IsNonEmptyArray(calls[j].x)
    /\ calls[i].x.items[1].kind = "object"
    /\ SameShape(calls[i].x, calls[j].x)
    /\ calls[i].file # calls[j].file
    /\ calls[j].type = "T0[]"

(* ---------------------------------------------------------------------- *)
(* C11  Contexts grow by one entry per re-encounter                       *)
(* ---------------------------------------------------------------------- *)

\* The number of createType calls a traversal of x makes: one for every
\* object and every empty array it reaches.
RECURSIVE Registrations(_)
RECURSIVE RegistrationsBelow(_, _)
Registrations(x) ==
  IF IsPrimitive(x) THEN 0
  ELSE IF x.kind = "array"
       THEN IF Len(x.items) = 0 THEN 1 ELSE Registrations(x.items[1])
       ELSE 1 + RegistrationsBelow(x, 1)

RegistrationsBelow(x, i) ==
  IF i > Len(x.props) THEN 0
  ELSE Registrations(x.props[i].val) + RegistrationsBelow(x, i + 1)

\* The number of context entries in heap h.
RECURSIVE ContextCount(_)
ContextCount(h) == IF h = <<>> THEN 0 ELSE Len(Head(h).contexts) + ContextCount(Tail(h))

IsPrefix(s, t) == Len(s) <= Len(t) /\ \A n \in 1..Len(s) : s[n] = t[n]

\* C11: every registration adds exactly one context entry, to a new
\* declaration or at the end of the contexts of the declaration it reuses,
\* also when that string is already in the list: a call adds as many entries
\* as it registers values, no entry is removed or moved, an object whose
\* shape the given cache already holds gets its origin label appended last,
\* and {foo:"x"} then {foo:"y"} on one cache with no file label, with no
\* other registration in between, leave one declaration, of type
\* {foo:"string"}, with contexts ["root","root"].
C11_ContextsGrowByOne ==
  /\ \A k \in 1..Len(calls) :
       LET c == calls[k]
       IN /\ ContextCount(c.heapAfter) = ContextCount(c.heapBefore) + Registrations(c.x)
          /\ \A d \in 1..Len(c.heapBefore) :
               IsPrefix(c.heapBefore[d].contexts, c.heapAfter[d].contexts)
          /\ c.x.kind = "object" =>
               \A e \in Resolve(MapIn(c), c.heapBefore, c.type) :
                 LET before == c.heapBefore[MapIn(c)[e].ref].contexts
                     after == c.heapAfter[MapIn(c)[e].ref].contexts
                 IN /\ after[Len(after)] = rootContext(c.file)
                    /\ Registrations(c.x) = 1 => after = Append(before, rootContext(c.file))
  /\ \A i, j \in 1..Len(calls) :
       ( /\ Threaded(i, j)
         /\ MapIn(calls[i]) = <<>>
         /\ calls[j].heapBefore = calls[i].heapAfter
         /\ calls[i].x = JObject(<<P(kFoo, JString("x"))>>) /\ calls[i].file = ""
         /\ calls[j].x = JObject(<<P(kFoo, JString("y"))>>) /\ calls[j].file = "" )
       => /\ Len(MapOut(calls[j])) = 1
          /\ \A e \in 1..Len(MapOut(calls[j])) :
               /\ calls[j].heapAfter[MapOut(calls[j])[e].ref].type
                    = ObjectType(<<[key |-> kFoo, type |-> "string"]>>)
               /\ calls[j].heapAfter[MapOut(calls[j])[e].ref].contexts = <<"root", "root">>

\* {foo:"x"} and then {foo:"y"}, both without a file label, from an empty cache.
C11_Witness ==
  \E i, j \in 1..Len(calls) :
    /\ Threaded(i, j)
    /\ MapIn(calls[i]) = <<>>
    /\ calls[j].heapBefore = calls[i].heapAfter
    /\ calls[i].x = JObject(<<P(kFoo, JString("x"))>>) /\ calls[i].file = ""
    /\ calls[j].x = JObject(<<P(kFoo, JString("y"))>>) /\ calls[j].file = ""
    /\ calls[j].type = calls[i].type

(* ---------------------------------------------------------------------- *)
(* C12  Key-order insensitivity                                           *)
(* ---------------------------------------------------------------------- *)

\* The values x becomes when the keys of its objects, at every level, are
\* declared in another order.
RECURSIVE Reordered(_)
RECURSIVE ReorderedItems(_)
RECURSIVE ReorderedProps(_)
Reordered(x) ==
  IF IsPrimitive(x) THEN {x}
  ELSE IF x.kind = "array" THEN {JArray(items) : items \in ReorderedItems(x.items)}
  ELSE { JObject([n \in 1..Len(props) |-> props[order[n]]]) :
           props \in ReorderedProps(x.props), order \in Permutations(1..Len(x.props)) }

ReorderedItems(items) ==
  IF items = <<>> THEN {<<>>}
  ELSE {<<first>> \o rest : first \in Reordered(Head(items)), rest \in ReorderedItems(Tail(items))}

ReorderedProps(props) ==
  IF props = <<>> THEN {<<>>}
  ELSE {<<P(Head(props).key, val)>> \o rest :
          val \in Reordered(Head(props).val), rest \in ReorderedProps(Tail(props))}

\* x below a key of an object with a second key declared after it.
Nested(x) == JObject(<<P(kTwo, x), P(kOne, JNumber("1"))>>)

\* The object of the last call, and that object nested in another one.
LastObjects ==
  IF calls # <<>> /\ calls[Len(calls)].x.kind = "object"
  THEN {calls[Len(calls)].x, Nested(calls[Len(calls)].x)}
  ELSE {}

\* Converting every reordering y of x from the state call c started in
\* gives what converting x gives: result, map, declarations, counter.
SameFromEqualCaches(c, x) ==
  \A original \in {FromStateOf(c, x, rootContext(c.file))} :
    \A y \in Reordered(x) \ {x} :
      FromStateOf(c, y, rootContext(c.file)) = original

\* Converting a reordering y of x on the cache the conversion of x returned
\* gives the result of x and registers nothing.
NothingNewAfterwards(c, x) ==
  \A original \in {FromStateOf(c, x, rootContext(c.file))} :
    \A y \in Reordered(x) :
      \A second \in {_convertToType(original.st, y, rootContext(c.file))} :
        /\ second.type = original.type
        /\ second.st.map = original.st.map
        /\ Len(second.st.heap) = Len(original.st.heap)
        /\ second.st.nextId = original.st.nextId

\* The call recorded what the conversion of its value gives.
Recorded(c) ==
  LET r == FromStateOf(c, c.x, rootContext(c.file))
  IN c.type = r.type /\ MapOut(c) = r.st.map /\ c.heapAfter = r.st.heap /\ c.idAfter = r.st.nextId

\* C12 as stated: for every object and every reordering of its keys at any
\* level, convertToType from equal caches gives the same result, types and
\* ids, and the reordered value converted after the original on the
\* threaded cache creates no new declaration.
C12_KeyOrderInsensitive ==
  /\ LastObjects # {} => Recorded(calls[Len(calls)])
  /\ \A x \in LastObjects :
    /\ SameFromEqualCaches(calls[Len(calls)], x)
    /\ NothingNewAfterwards(calls[Len(calls)], x)

\* C12, amended: for every object and every reordering of its keys at any
\* level, convertToType from equal caches gives the same result, types and
\* ids; the reordered value converted after the original on the threaded
\* cache creates no new declaration provided the traversal reaches no empty
\* array (each empty array, and each object holding one, is registered anew).
C12_KeyOrderInsensitiveNoEmptyArrays ==
  /\ LastObjects # {} => Recorded(calls[Len(calls)])
  /\ \A x \in LastObjects :
    /\ SameFromEqualCaches(calls[Len(calls)], x)
    /\ VisitsNoEmptyArray(x) => NothingNewAfterwards(calls[Len(calls)], x)

\* An object with two keys declared in unsorted order, converted on a cache
\* that already has entries.
C12_Witness ==
  /\ LastObjects # {}
  /\ Len(calls[Len(calls)].x.props) = 2
  /\ SortKeys(ObjectKeys(calls[Len(calls)].x)) # ObjectKeys(calls[Len(calls)].x)
  /\ VisitsNoEmptyArray(calls[Len(calls)].x)
  /\ MapIn(calls[Len(calls)]) # <<>>
  /\ Cardinality(Reordered(Nested(calls[Len(calls)].x))) = 4

(* ---------------------------------------------------------------------- *)
(* C13  Distinct shapes never merge                                       *)
(* ---------------------------------------------------------------------- *)

\* C13: two values that get the same result from convertToType on a
\* threaded cache have the same shape up to key order (the same key sets at
\* every object level, the same shapes below, arrays by their first
\* element), so that no declaration collects the origin of a value of
\* another shape.
C13_DistinctShapesNeverMerge ==
  \A i, j \in 1..Len(calls) :
    (Threaded(i, j) /\ calls[i].type = calls[j].type)
    => SameShape(calls[i].x, calls[j].x)

(* ---------------------------------------------------------------------- *)
(* C14  No duplicate declarations                                         *)
(* ---------------------------------------------------------------------- *)

\* C14: in every cache, two distinct entries of the map are distinct
\* declarations, and they have different structural types unless both have
\* the type "unknown[]".
C14_NoDuplicateDeclarations ==
  \A c \in 1..Len(caches) :
    \A m, n \in 1..Len(caches[c].map) :
      m # n =>
        /\ caches[c].map[m].ref # caches[c].map[n].ref
        /\ caches[c].map[m].key # caches[c].map[n].key
        /\ heap[caches[c].map[m].ref].type = heap[caches[c].map[n].ref].type
             => heap[caches[c].map[m].ref].type = StringType("unknown[]")

\* A cache with two declarations of type "unknown[]" and two object
\* declarations.
C14_Witness ==
  \E c \in 1..Len(caches) :
    /\ Cardinality(UnknownArrays(caches[c].map, heap)) = 2
    /\ Cardinality({m \in 1..Len(caches[c].map) : heap[caches[c].map[m].ref].type.obj}) = 2

(* ---------------------------------------------------------------------- *)
(* C15  Declaration lifecycle                                             *)
(* ---------------------------------------------------------------------- *)

\* C15: in every step no declaration disappears, a declaration keeps its id
\* and its type, its contexts only get entries appended, no existing cache
\* changes, and the cache a convertToType call returns holds every entry of
\* the cache it was given, in place and with the same declaration object.
C15_Lifecycle ==
  [][ /\ Len(heap') >= Len(heap)
      /\ \A d \in 1..Len(heap) :
           /\ heap'[d].id = heap[d].id
           /\ heap'[d].type = heap[d].type
           /\ IsPrefix(heap[d].contexts, heap'[d].contexts)
      /\ Len(caches') >= Len(caches)
      /\ \A c \in 1..Len(caches) : caches'[c] = caches[c]
      /\ calls' # calls =>
           IsPrefix(caches'[calls'[Len(calls')].cache].map, caches'[calls'[Len(calls')].out].map)
    ]_vars

\* A call that reuses a declaration of the cache it was given, under another
\* context, and registers a new one.
C15_Witness ==
  \E k \in 1..Len(calls) :
    /\ Len(MapOut(calls[k])) > Len(MapIn(calls[k]))
    /\ \E e \in 1..Len(MapIn(calls[k])) :
         LET before == calls[k].heapBefore[MapIn(calls[k])[e].ref].contexts
             after == calls[k].heapAfter[MapIn(calls[k])[e].ref].contexts
         IN Len(after) > Len(before) /\ after[Len(after)] # before[Len(before)]

(* ---------------------------------------------------------------------- *)
(* C16  Reuse consumes no id                                              *)
(* ---------------------------------------------------------------------- *)

\* C16: a convertToType call advances the id counter by exactly the number
\* of entries it adds to the map, which is the number of declarations it
\* creates; the new declarations carry the ids it took, in order; and a call
\* on a value whose shapes the given cache already holds (the value of an
\* earlier call on the thread, no empty array reached) leaves the counter
\* and the size of the map unchanged.
C16_ReuseConsumesNoId ==
  /\ \A k \in 1..Len(calls) :
       LET c == calls[k]
       IN /\ c.idAfter - c.idBefore = Len(MapOut(c)) - Len(MapIn(c))
          /\ c.idAfter - c.idBefore = Len(c.heapAfter) - Len(c.heapBefore)
          /\ \A n \in 1..(Len(MapOut(c)) - Len(MapIn(c))) :
               c.heapAfter[MapOut(c)[Len(MapIn(c)) + n].ref].id = c.idBefore + n - 1
  /\ \A i, j \in 1..Len(calls) :
       ( /\ Threaded(i, j)
         /\ SameShape(calls[i].x, calls[j].x)
         /\ VisitsNoEmptyArray(calls[j].x) )
       => /\ calls[j].idAfter = calls[j].idBefore
          /\ Len(MapOut(calls[j])) = Len(MapIn(calls[j]))

\* A call that registers two values, one of a shape the given cache holds
\* and one of a new shape, and takes one id.
C16_Witness ==
  \E k \in 1..Len(calls) :
    /\ Registrations(calls[k].x) = 2
    /\ calls[k].idBefore > 0
    /\ calls[k].idAfter = calls[k].idBefore + 1

(* ---------------------------------------------------------------------- *)
(* C17  Empty object                                                      *)
(* ---------------------------------------------------------------------- *)

\* The origin paths of the objects without keys a traversal of x from
\* `context` reaches.
RECURSIVE EmptyObjectPaths(_, _)
EmptyObjectPaths(x, context) ==
  IF x.kind = "array"
  THEN IF Len(x.items) = 0 THEN {}
       ELSE EmptyObjectPaths(x.items[1], context \o "[0]")
  ELSE IF x.kind = "object"
  THEN IF Len(x.props) = 0 THEN {context}
       ELSE UNION { EmptyObjectPaths(x.props[i].val,
                      context \o (IF identifierRegex(x.props[i].key)
                                  THEN "." \o KeyStr(x.props[i].key)
                                  ELSE "[\"" \o KeyStr(x.props[i].key) \o "\"]"))
                    : i \in 1..Len(x.props) }
  ELSE {}

IsEmptyObject(x) == x.kind = "object" /\ Len(x.props) = 0

\* The contexts call c appended to the declaration at heap position ref.
AppendedContexts(c, ref) ==
  IF ref <= Len(c.heapBefore)
  THEN SubSeq(c.heapAfter[ref].contexts, Len(c.heapBefore[ref].contexts) + 1,
              Len(c.heapAfter[ref].contexts))
  ELSE c.heapAfter[ref].contexts

\* C17: a call that reaches an empty object leaves exactly one declaration of
\* the empty object type in the returned map, with every path at which an
\* empty object was reached among the contexts the call appended; a root {}
\* gets that declaration's alias, and an empty object below a key (through
\* any number of array levels) is recorded by that alias.  On a fresh cache
\* {} gives "T0" and the single declaration {id 0, type {}, contexts
\* ["root"]}.  When the given cache already holds the empty object type the
\* declaration and its id are kept, and a root {} changes nothing but that
\* declaration's contexts, which get the root label appended.
C17_EmptyObject ==
  \A k \in 1..Len(calls) :
    LET c == calls[k]
        paths == EmptyObjectPaths(c.x, rootContext(c.file))
        hash == createHash(ObjectType(<<>>))
    IN paths # {} =>
         /\ MapHas(MapOut(c), hash)
         /\ LET ref == MapGet(MapOut(c), hash)
                d == c.heapAfter[ref]
                alias == typeAlias(d.id)
            IN /\ d.type = ObjectType(<<>>)
               /\ Cardinality({i \in 1..Len(MapOut(c)) :
                                 c.heapAfter[MapOut(c)[i].ref].type = ObjectType(<<>>)}) = 1
               /\ \A p \in paths :
                    \E n \in 1..Len(AppendedContexts(c, ref)) : AppendedContexts(c, ref)[n] = p
               /\ IsEmptyObject(Innermost(c.x)) => c.type = Brackets(alias, ArrayDepth(c.x))
               /\ (c.x.kind = "object" /\ ~IsEmptyObject(c.x)) =>
                    \A key \in KeySet(c.x) :
                      IsEmptyObject(Innermost(GetProp(c.x, key))) =>
                        \A e \in Resolve(MapOut(c), c.heapAfter, c.type) :
                          PropType(c.heapAfter[MapOut(c)[e].ref].type, key)
                            = Brackets(alias, ArrayDepth(GetProp(c.x, key)))
               /\ (IsEmptyObject(c.x) /\ MapIn(c) = <<>> /\ c.idBefore = 0 /\ c.file = "") =>
                    /\ c.type = "T0"
                    /\ Declarations(MapOut(c), c.heapAfter)
                         = <<[id |-> 0, contexts |-> <<"root">>, type |-> ObjectType(<<>>)]>>
               /\ MapHas(MapIn(c), hash) =>
                    /\ MapGet(MapIn(c), hash) = ref
                    /\ c.heapBefore[ref].id = d.id
                    /\ IsEmptyObject(c.x) =>
                         /\ MapOut(c) = MapIn(c)
                         /\ c.idAfter = c.idBefore
                         /\ c.heapAfter = [c.heapBefore EXCEPT ![ref].contexts =
                                             Append(@, rootContext(c.file))]

\* {} converted on a fresh cache, then an empty object below a key converted
\* on the cache that call returned.
C17_Witness ==
  \E i, j \in 1..Len(calls) :
    /\ Threaded(i, j)
    /\ IsEmptyObject(calls[i].x) /\ MapIn(calls[i]) = <<>> /\ calls[i].idBefore = 0
    /\ calls[j].x.kind = "object" /\ ~IsEmptyObject(calls[j].x)
    /\ EmptyObjectPaths(calls[j].x, rootContext(calls[j].file)) # {}

(* ---------------------------------------------------------------------- *)
(* C18  Root-level empty array                                            *)
(* ---------------------------------------------------------------------- *)

\* C18: convertToType on [] returns the alias of the id the counter held,
\* never the string "unknown[]"; the returned map is the given map followed
\* by one entry, and that entry's declaration, the only one the call
\* creates and the only one of the returned map with that alias, has that
\* id, the type "unknown[]" and the root label as its only context.
C18_RootEmptyArray ==
  \A k \in 1..Len(calls) :
    LET c == calls[k]
    IN IsEmptyArray(c.x) =>
         /\ c.type = typeAlias(c.idBefore)
         /\ c.type # "unknown[]"
         /\ Len(MapOut(c)) = Len(MapIn(c)) + 1
         /\ IsPrefix(MapIn(c), MapOut(c))
         /\ c.heapAfter = Append(c.heapBefore,
                                 [id |-> c.idBefore,
                                  contexts |-> <<rootContext(c.file)>>,
                                  type |-> StringType("unknown[]")])
         /\ MapOut(c)[Len(MapOut(c))].ref = Len(c.heapAfter)
         /\ Resolve(MapOut(c), c.heapAfter, c.type) = {Len(MapOut(c))}

\* [] converted with a file name on a cache that already holds an
\* "unknown[]" declaration.
C18_Witness ==
  \E k \in 1..Len(calls) :
    /\ IsEmptyArray(calls[k].x)
    /\ calls[k].file # ""
    /\ UnknownArrays(MapIn(calls[k]), calls[k].heapBefore) # {}

(* ---------------------------------------------------------------------- *)
(* C19  Origin labels do not influence aliasing                           *)
(* ---------------------------------------------------------------------- *)

\* Heap h with every origin path replaced by the same foreign label.
Relabel(h) ==
  [d \in 1..Len(h) |-> [h[d] EXCEPT !.contexts = [n \in 1..Len(@) |-> "other"]]]

\* The ids and types of the declarations of `map`, in the map's order.
IdsAndTypes(map, h) ==
  [i \in 1..Len(map) |-> [id |-> h[map[i].ref].id, type |-> h[map[i].ref].type]]

\* Converting x under the label `file` from state st gives the result, the
\* map, the counter and the declarations' ids and types that call c gave,
\* with as many contexts in every declaration.
SameButContexts(c, st, file) ==
  LET r == _convertToType(st, c.x, rootContext(file))
  IN /\ r.type = c.type
     /\ r.st.map = MapOut(c)
     /\ r.st.nextId = c.idAfter
     /\ IdsAndTypes(r.st.map, r.st.heap) = IdsAndTypes(MapOut(c), c.heapAfter)
     /\ \A i \in 1..Len(MapOut(c)) :
          Len(r.st.heap[r.st.map[i].ref].contexts)
            = Len(c.heapAfter[MapOut(c)[i].ref].contexts)

\* C19: two sequences of calls on the same values that differ in the labels
\* only go step by step through states that differ in contexts only.  Shown
\* for the two ends of such a pair: calls on caches from createCache() with
\* the same value return the same result and the same ids and types; and
\* the latest call (every call is the latest one in the state it produces),
\* repeated from the state it started in under any label, and from that
\* state with all the origin paths of earlier calls replaced, returns the
\* same result, map, counter, ids and types.
C19_LabelsDoNotInfluenceAliasing ==
  /\ \A i, j \in 1..Len(calls) :
       ( /\ calls[i].x = calls[j].x
         /\ MapIn(calls[i]) = <<>> /\ MapIn(calls[j]) = <<>>
         /\ calls[i].idBefore = calls[j].idBefore )
       => /\ calls[i].type = calls[j].type
          /\ IdsAndTypes(MapOut(calls[i]), calls[i].heapAfter)
               = IdsAndTypes(MapOut(calls[j]), calls[j].heapAfter)
  /\ calls # <<>> =>
       LET c == calls[Len(calls)]
       IN \A file \in Files :
            /\ SameButContexts(c, [map |-> MapIn(c), heap |-> c.heapBefore,
                                   nextId |-> c.idBefore], file)
            /\ SameButContexts(c, [map |-> MapIn(c), heap |-> Relabel(c.heapBefore),
                                   nextId |-> c.idBefore], file)

\* Two calls in sequence under different labels, the second of which gets
\* the alias of a declaration the first one created.
C19_Witness ==
  \E i, j \in 1..Len(calls) :
    /\ Threaded(i, j)
    /\ calls[i].file # calls[j].file
    /\ calls[j].x.kind = "object"
    /\ calls[j].idAfter = calls[j].idBefore
    /\ \E e \in Resolve(MapOut(calls[j]), calls[j].heapAfter, calls[j].type) :
         LET d == calls[j].heapAfter[MapOut(calls[j])[e].ref]
         IN /\ Len(d.contexts) >= 2
            /\ d.contexts[1] # d.contexts[2]

(* ---------------------------------------------------------------------- *)
(* C20  Enumeration order                                                 *)
(* ---------------------------------------------------------------------- *)

\* C20: in every cache, the declarations of the map, taken in the map's
\* order, have strictly increasing ids and were created in that order.
C20_EnumerationOrder ==
  \A c \in 1..Len(caches) :
    \A i, j \in 1..Len(caches[c].map) :
      i < j => /\ heap[caches[c].map[i].ref].id < heap[caches[c].map[j].ref].id
               /\ caches[c].map[i].ref < caches[c].map[j].ref

\* A cache returned by the second of two calls in sequence, each of which
\* added an entry, holding three entries or more.
C20_Witness ==
  \E i, j \in 1..Len(calls) :
    /\ Threaded(i, j)
    /\ Len(MapOut(calls[i])) > Len(MapIn(calls[i]))
    /\ Len(MapOut(calls[j])) > Len(MapOut(calls[i]))
    /\ Len(MapOut(calls[j])) >= 3

(* ---------------------------------------------------------------------- *)
(* C21  Unsupported value kinds fail fast                                 *)
(* ---------------------------------------------------------------------- *)

\* The traversal of x reaches a value that is no string, number, boolean,
\* null, array or plain object.
RECURSIVE VisitsUnsupported(_)
VisitsUnsupported(x) ==
  IF x.kind = "function" THEN TRUE
  ELSE IF x.kind = "array" THEN Len(x.items) # 0 /\ VisitsUnsupported(x.items[1])
  ELSE IF x.kind = "object"
       THEN \E i \in 1..Len(x.props) : VisitsUnsupported(x.props[i].val)
       ELSE FALSE

\* C21: a convertToType call whose traversal reaches an unsupported value
\* does not return the alias of a declaration and leaves the map and the
\* declarations as they were: nothing is registered for the value.
C21_UnsupportedFailFast ==
  \A k \in 1..Len(calls) :
    LET c == calls[k]
    IN VisitsUnsupported(c.x) =>
         /\ Resolve(MapOut(c), c.heapAfter, c.type) = {}
         /\ MapOut(c) = MapIn(c)
         /\ c.heapAfter = c.heapBefore

(* ---------------------------------------------------------------------- *)
(* C22  Duplicate registration is fatal                                   *)
(* ---------------------------------------------------------------------- *)

\* C22: no call replaces a declaration of the map it was given: every key
\* of the given map still names the same declaration in the returned map
\* (a registration under a key that is present is refused).
C22_DuplicateRegistrationFatal ==
  \A k \in 1..Len(calls) :
    \A e \in 1..Len(MapIn(calls[k])) :
      /\ MapHas(MapOut(calls[k]), MapIn(calls[k])[e].key)
      /\ MapGet(MapOut(calls[k]), MapIn(calls[k])[e].key) = MapIn(calls[k])[e].ref

(* ---------------------------------------------------------------------- *)
(* C23  Per-file default export                                           *)
(* ---------------------------------------------------------------------- *)

\* The declarations of the script's cache, in the map's order.
DriverDeclarations ==
  [i \in 1..Len(caches[driver.cache].map) |-> heap[caches[driver.cache].map[i].ref]]

\* `text` was written to `to`.
Written(to, text) == \E n \in 1..Len(output) : output[n].to = to /\ output[n].text = text

\* C23: when the script is done, the re-export statement written for every
\* input file names the alias of a declaration that the common declaration
\* file holds with the "export" prefix, and the declarations whose alias is
\* the root result of no input file are written without "export".
C23_PerFileDefaultExport ==
  driver.pc = "done" =>
    /\ \A k \in 1..Len(driver.inputFiles) :
         LET file == driver.inputFiles[k].file
         IN \E e \in 1..Len(DriverDeclarations) :
              /\ Written(Join(file.dir \o <<file.stem \o ".d.ts">>, "/"),
                         relativeReExport(typeAlias(DriverDeclarations[e].id), file, COMMON_FILE))
              /\ Written(COMMON_DTS, typeDeclaration(DriverDeclarations[e], TRUE, TRUE, TRUE))
    /\ \A e \in 1..Len(DriverDeclarations) :
         (\A k \in 1..Len(calls) : calls[k].type # typeAlias(DriverDeclarations[e].id))
         => /\ Written(COMMON_DTS, typeDeclaration(DriverDeclarations[e], FALSE, TRUE, TRUE))
            /\ ~Written(COMMON_DTS, typeDeclaration(DriverDeclarations[e], TRUE, TRUE, TRUE))

(* ---------------------------------------------------------------------- *)
(* C24  Empty-array warning                                               *)
(* ---------------------------------------------------------------------- *)

\* The positions in `output` of the warnings, and of the writes to the
\* common declaration file.
Warnings == {n \in 1..Len(output) : output[n].line = 111}
CommonWrites == {n \in 1..Len(output) : output[n].to = COMMON_DTS}

\* One line per "unknown[]" declaration among the entries e.. of the
\* script's cache, in the map's order: its alias and its first context.
RECURSIVE UnfinishedFrom(_)
UnfinishedFrom(e) ==
  IF e > Len(DriverDeclarations) THEN <<>>
  ELSE (IF DriverDeclarations[e].type = StringType("unknown[]")
        THEN <<"  type T" \o ToString(DriverDeclarations[e].id) \o ", derived from "
                 \o DriverDeclarations[e].contexts[1]>>
        ELSE <<>>) \o UnfinishedFrom(e + 1)

\* The warning the console gets for the lines `unfinished`.
WarningFor(unfinished) ==
  "\nThe proper array type for the following type aliases could not be\n"
    \o "inferred because the provided JSON featured empty arrays:\n\n"
    \o Join(unfinished, "\n")
    \o "\n\nThese type aliases have been given the type \"unknown[]\". Opening\n"
    \o "_common.d.ts and manually providing the proper types is recommended."

\* C24: no warning is written before every input file is processed and
\* the common declaration file is written; the script gets past every input
\* file, with or without empty arrays in it; and when the script is done
\* the console has got one warning if the final cache holds an "unknown[]"
\* declaration and none otherwise, the warning holding one line for each
\* such declaration, with its alias and its first context.
C24_EmptyArrayWarning ==
  /\ Warnings # {} =>
       /\ driver.pc = "done"
       /\ \A w \in Warnings, c \in CommonWrites : c < w
  /\ driver.pc \in {"collect", "warn", "done"} =>
       /\ Len(calls) = Len(driver.inputFiles)
       /\ CommonWrites # {}
  /\ driver.pc = "done" =>
       /\ Cardinality(Warnings)
            = (IF UnknownArrays(caches[driver.cache].map, heap) # {} THEN 1 ELSE 0)
       /\ Len(UnfinishedFrom(1))
            = Cardinality(UnknownArrays(caches[driver.cache].map, heap))
       /\ \A w \in Warnings :
            /\ output[w].to = "console"
            /\ output[w].text = WarningFor(UnfinishedFrom(1))

\* The script is done with two files that held empty arrays, and has
\* warned of three declarations.
C24_Witness ==
  /\ driver.pc = "done"
  /\ Len(driver.inputFiles) = 2
  /\ Cardinality(UnknownArrays(caches[driver.cache].map, heap)) = 3
  /\ Warnings # {}

(* ---------------------------------------------------------------------- *)
(* C25  Run isolation                                                     *)
(* ---------------------------------------------------------------------- *)

\* C25: a createCache() step makes a cache with an empty map and a counter
\* of its own at 0, and a convertToType step on a cache changes no counter
\* but that cache's, and no cache and no declaration of a cache that
\* descends from another createCache().
C25_RunIsolation ==
  [][ /\ (calls' = calls /\ Len(caches') = Len(caches) + 1) =>
           /\ caches'[Len(caches')].map = <<>>
           /\ \A k \in 1..Len(caches) : caches[k].id # caches'[Len(caches')].id
           /\ nextId'[caches'[Len(caches')].id] = 0
           /\ \A r \in 1..Len(nextId) : nextId'[r] = nextId[r]
           /\ heap' = heap
      /\ calls' # calls =>
           LET run == caches[calls'[Len(calls')].cache].id
           IN /\ \A r \in 1..Len(nextId) : r # run => nextId'[r] = nextId[r]
              /\ \A k \in 1..Len(caches) :
                   caches[k].id # run =>
                     /\ caches'[k] = caches[k]
                     /\ \A e \in 1..Len(caches[k].map) :
                          heap'[caches[k].map[e].ref] = heap[caches[k].map[e].ref]
    ]_vars

\* Two createCache() results: a call on one has registered a declaration,
\* and the other still has an empty map and its counter at 0.
C25_Witness ==
  \E i \in 1..Len(calls), k \in 1..Len(caches) :
    /\ caches[k].id # caches[calls[i].cache].id
    /\ calls[i].idAfter > calls[i].idBefore
    /\ caches[k].map = <<>>
    /\ nextId[caches[k].id] = 0

(* ---------------------------------------------------------------------- *)
(* C26  typeDeclaration rendering                                         *)
(* ---------------------------------------------------------------------- *)

\* "k1: t1; k2: t2; " for the properties props, in their order, a key that
\* is no identifier in double quotes.
RECURSIVE Members(_)
Members(props) ==
  IF props = <<>> THEN ""
  ELSE (IF identifierRegex(Head(props).key)
        THEN KeyStr(Head(props).key)
        ELSE "\"" \o KeyStr(Head(props).key) \o "\"")
         \o ": " \o Head(props).type \o "; " \o Members(Tail(props))

\* The body of a declaration of type `type`.
Body(type) ==
  IF ~type.obj THEN type.str
  ELSE IF type.props = <<>> THEN "{}"
  ELSE "{ " \o Members(type.props) \o "}"

\* The contexts, each but the first after ", ".
RECURSIVE Contexts(_)
Contexts(contexts) ==
  IF contexts = <<>> THEN ""
  ELSE IF Len(contexts) = 1 THEN contexts[1]
  ELSE contexts[1] \o ", " \o Contexts(Tail(contexts))

\* C26: the output of typeDeclaration is ["export "] "type T<i> = " body
\* ";" [" // " contexts], with "export " exactly when exported is set, the
\* body inside "C<" ">" exactly when computed is set, and the contexts
\* exactly when includeContexts is set; and the test cases of the
\* repository come out as the tests expect.
C26_TypeDeclarationRendering ==
  driver.pc = "rendered" =>
    LET d == driver.declaration
        text == output[1].text
    IN /\ text = (IF driver.exported THEN "export " ELSE "")
                   \o "type T" \o ToString(d.id) \o " = "
                   \o (IF driver.computed THEN "C<" \o Body(d.type) \o ">" ELSE Body(d.type))
                   \o ";"
                   \o (IF driver.includeContexts THEN " // " \o Contexts(d.contexts) ELSE "")
       /\ (d = [id |-> 0, type |-> StringType("string"), contexts |-> <<>>]
           /\ ~driver.exported /\ ~driver.computed /\ ~driver.includeContexts)
          => text = "type T0 = string;"
       /\ (d = [id |-> 0, type |-> ObjectType(<<[key |-> kA, type |-> "string"]>>),
                contexts |-> <<>>]
           /\ ~driver.exported /\ ~driver.computed /\ ~driver.includeContexts)
          => text = "type T0 = { a: string; };"
       /\ (d = [id |-> 0, type |-> StringType("string"), contexts |-> <<"foo", "bar">>]
           /\ ~driver.exported /\ ~driver.computed /\ driver.includeContexts)
          => text = "type T0 = string; // foo, bar"
       /\ (d = [id |-> 0,
                type |-> ObjectType(<<[key |-> kFoo, type |-> "number"],
                                      [key |-> kBar, type |-> "string"]>>),
                contexts |-> <<"root">>]
           /\ driver.exported /\ driver.computed /\ driver.includeContexts)
          => text = "export type T0 = C<{ foo: number; bar: string; }>; // root"
       /\ (d = [id |-> 12,
                type |-> ObjectType(<<[key |-> kDash, type |-> "T0[]"],
                                      [key |-> kFoo, type |-> "T1"]>>),
                contexts |-> <<>>]
           /\ ~driver.exported /\ ~driver.computed /\ ~driver.includeContexts)
          => text = "type T12 = { \"a-b\": T0[]; foo: T1; };"

\* A declaration with a key that is no identifier, rendered with every
\* option set.
C26_Witness ==
  /\ driver.pc = "rendered"
  /\ driver.declaration.type.obj
  /\ \E i \in 1..Len(driver.declaration.type.props) :
       ~identifierRegex(driver.declaration.type.props[i].key)
  /\ driver.exported /\ driver.computed /\ driver.includeContexts
  /\ Len(driver.declaration.contexts) = 2

(* ---------------------------------------------------------------------- *)
(* C27  Parallel inputs with serialized registration                      *)
(* ---------------------------------------------------------------------- *)

\* The normalization of input p has returned, and what it returned.
ParallelDone(p) ==
  ~Replay(driver.inputs[p], rootContext(ParallelFile(p)), driver.results[p]).need
ParallelResult(p) ==
  Replay(driver.inputs[p], rootContext(ParallelFile(p)), driver.results[p]).result

Suffixes == 0..2

\* C28, for the declarations the latest call created (every declaration is
\* created by a call, which is the latest one in the state it produces):
\* no property type of a declaration with id n is the alias, with or
\* without "[]" suffixes, of an id from n on; a declaration created for the
\* root object has the last id the call took; empty arrays below two keys
\* of the root object get their ids in the sorted order of the keys; and on
\* a fresh cache {foo:{bar:3}} gives id 0 = {bar:"number"} at "root.foo",
\* id 1 = {foo:"T0"} at "root" and the result "T1", and {two:[], one:[]}
\* gives "T0" to property one and "T1" to property two.
C28_PostOrderIds ==
  calls # <<>> =>
    LET c == calls[Len(calls)]
        created == (Len(c.heapBefore) + 1)..Len(c.heapAfter)
        fresh == MapIn(c) = <<>> /\ c.idBefore = 0 /\ c.file = ""
    IN /\ \A d \in created :
            c.heapAfter[d].type.obj =>
              \A i \in 1..Len(c.heapAfter[d].type.props) :
                \A k \in c.heapAfter[d].id..c.idAfter, n \in Suffixes :
                  c.heapAfter[d].type.props[i].type # Brackets(typeAlias(k), n)
       /\ (c.x.kind = "object" /\ created # {}
           /\ c.heapAfter[Len(c.heapAfter)].type.obj
           /\ c.type = typeAlias(c.heapAfter[Len(c.heapAfter)].id))
          => c.heapAfter[Len(c.heapAfter)].id = c.idAfter - 1
       /\ c.x.kind = "object" =>
            \A a, b \in KeySet(c.x) :
              ( /\ KeyLess(a, b)
                /\ IsEmptyArray(GetProp(c.x, a)) /\ IsEmptyArray(GetProp(c.x, b)) )
              => \A e \in Resolve(MapOut(c), c.heapAfter, c.type) :
                   \E k, m \in c.idBefore..(c.idAfter - 1) :
                     /\ k < m
                     /\ PropType(c.heapAfter[MapOut(c)[e].ref].type, a) = typeAlias(k)
                     /\ PropType(c.heapAfter[MapOut(c)[e].ref].type, b) = typeAlias(m)
       /\ (fresh /\ c.x = JObject(<<P(kFoo, JObject(<<P(kBar, JNumber("3"))>>))>>)) =>
            /\ c.type = "T1"
            /\ Declarations(MapOut(c), c.heapAfter)
                 = << [id |-> 0, contexts |-> <<"root.foo">>,
                       type |-> ObjectType(<<[key |-> kBar, type |-> "number"]>>)],
                      [id |-> 1, contexts |-> <<"root">>,
                       type |-> ObjectType(<<[key |-> kFoo, type |-> "T0"]>>)] >>
       /\ (fresh /\ c.x = JObject(<<P(kTwo, JArray(<<>>)), P(kOne, JArray(<<>>))>>)) =>
            \A e \in Resolve(MapOut(c), c.heapAfter, c.type) :
              /\ PropType(c.heapAfter[MapOut(c)[e].ref].type, kOne) = "T0"
              /\ PropType(c.heapAfter[MapOut(c)[e].ref].type, kTwo) = "T1"

\* {two:[], one:[]}, with its keys declared in unsorted order, converted on
\* a cache that already holds the declarations of {foo:{bar:3}}.
C28_Witness ==
  \E i, j \in 1..Len(calls) :
    /\ Threaded(i, j)
    /\ calls[i].x = JObject(<<P(kFoo, JObject(<<P(kBar, JNumber("3"))>>))>>)
    /\ MapIn(calls[i]) = <<>> /\ calls[i].idBefore = 0
    /\ calls[j].x = JObject(<<P(kTwo, JArray(<<>>)), P(kOne, JArray(<<>>))>>)
    /\ calls[j].type = "T4"

(* ---------------------------------------------------------------------- *)
(* C29  Forced-unique keys                                                *)
(* ---------------------------------------------------------------------- *)

\* The entries of map whose declaration in h is an "unknown[]" declaration.
ForcedUnique(map, h) ==
  {e \in 1..Len(map) : h[map[e].ref].type = StringType("unknown[]")}

MaxAlias == 4 * MaxCaches

\* For each id, the strings that name its alias: "T<k>", "T<k>[]", ...
AliasNames == [k \in 0..MaxAlias |-> {Brackets(typeAlias(k), n) : n \in Suffixes}]

\* The ids that the type string t names.
AliasesIn(t) == {k \in 0..MaxAlias : t \in AliasNames[k]}

\* The type strings of the call c: its result and the property types of
\* the declarations of the cache it returned.
TypeStrings(c) ==
  {c.type} \cup
  UNION { {c.heapAfter[MapOut(c)[e].ref].type.props[i].type :
             i \in 1..Len(c.heapAfter[MapOut(c)[e].ref].type.props)} :
          e \in {f \in 1..Len(MapOut(c)) : c.heapAfter[MapOut(c)[f].ref].type.obj} }

\* C30, for the latest call and the cache it returned (from an argument
\* cache that createCache() or an earlier call returned): every id named by
\* the result or by a property type of a declaration of the returned map is
\* the id of exactly one declaration of that map.
C30_ReferentialClosure ==
  calls # <<>> =>
    LET c == calls[Len(calls)]
    IN /\ c.idAfter <= MaxAlias
       /\ \A t \in TypeStrings(c) :
            \A k \in AliasesIn(t) :
              Cardinality({e \in 1..Len(MapOut(c)) :
                             c.heapAfter[MapOut(c)[e].ref].id = k}) = 1

\* A call whose result is an array of an alias and whose returned map has a
\* declaration with a property that names another declaration, on a cache
\* that already held declarations.
C30_Witness ==
  \E i \in 1..Len(calls) :
    /\ MapIn(calls[i]) # <<>>
    /\ \E k \in 0..MaxAlias : calls[i].type = Brackets(typeAlias(k), 1)
    /\ \E t \in TypeStrings(calls[i]) : t # calls[i].type /\ AliasesIn(t) # {}
    /\ calls[i].idAfter > calls[i].idBefore

(* ---------------------------------------------------------------------- *)
(* C31  Global id uniqueness                                              *)
(* ---------------------------------------------------------------------- *)

\* The declarations (heap references) that the call c created.
CreatedBy(c) == (Len(c.heapBefore) + 1)..Len(c.heapAfter)

\* C31, for the latest call c (every declaration is created by a call,
\* which is the latest one in the state it produces): the call and the
\* cache it returns count on the counter of the argument cache, which
\* stands after the call at the ids taken so far; the declarations the call
\* created have the ids the call took, each once; and none of these ids is
\* the id of another declaration of any cache of the same createCache(),
\* whether the call threads the latest cache or branches from an earlier
\* one.
C31_GlobalIdUniqueness ==
  calls # <<>> =>
    LET c == calls[Len(calls)]
        run == caches[c.cache].id
    IN /\ caches[c.out].id = run
       /\ nextId[run] = c.idAfter
       /\ c.idAfter - c.idBefore = Cardinality(CreatedBy(c))
       /\ \A d \in CreatedBy(c) :
            /\ heap[d].id \in c.idBefore..(c.idAfter - 1)
            /\ \A k \in 1..Len(caches) :
                 caches[k].id = run =>
                   \A f \in 1..Len(caches[k].map) :
                     heap[caches[k].map[f].ref].id = heap[d].id
                       => /\ caches[k].map[f].ref = d
                          /\ heap[caches[k].map[f].ref].type = heap[d].type

\* The same cache passed to two calls that register declarations of
\* different types: the second call continues the ids of the first.
C31_Witness ==
  \E i, j \in 1..Len(calls) :
    /\ i < j
    /\ calls[i].cache = calls[j].cache
    /\ calls[i].idAfter > calls[i].idBefore
    /\ calls[j].idBefore = calls[i].idAfter
    /\ calls[j].idAfter > calls[j].idBefore
    /\ \E d \in CreatedBy(calls[i]), e \in CreatedBy(calls[j]) :
         heap[d].type # heap[e].type

(* ---------------------------------------------------------------------- *)
(* C32  Origin path construction                                          *)
(* ---------------------------------------------------------------------- *)

\* The step from an object to its property `key`.
KeyStep(key) ==
  IF identifierRegex(key) THEN "." \o KeyStr(key) ELSE "[\"" \o KeyStr(key) \o "\"]"

\* The paths, from `path`, of the values below x that are registered: the
\* objects and the empty arrays reached through properties and through the
\* first elements of arrays, one entry per value.
RECURSIVE RegisteredPaths(_, _)
RECURSIVE RegisteredPathsBelow(_, _, _)
RegisteredPaths(x, path) ==
  IF x.kind = "array"
  THEN IF Len(x.items) = 0 THEN <<path>>
       ELSE RegisteredPaths(x.items[1], path \o "[0]")
  ELSE IF x.kind = "object"
  THEN RegisteredPathsBelow(x, path, 1) \o <<path>>
  ELSE <<>>

RegisteredPathsBelow(x, path, i) ==
  IF i > Len(x.props) THEN <<>>
  ELSE RegisteredPaths(x.props[i].val, path \o KeyStep(x.props[i].key))
         \o RegisteredPathsBelow(x, path, i + 1)

\* How many times the call c recorded the context s: as the context of a
\* declaration it created or as one it appended to an earlier declaration.
TimesRecorded(c, s) ==
  Cardinality({ <<ref, i>> \in (1..Len(c.heapAfter)) \X (1..4) :
                  /\ i <= Len(AppendedContexts(c, ref))
                  /\ AppendedContexts(c, ref)[i] = s })

\* C32, for the latest call c: the contexts the call recorded, on new
\* declarations and on reused ones alike, are the paths of the registered
\* values of its input, each as often as a value has that path: the root
\* label (file + ":root", "root" without a file), then ".key" for an
\* identifier key, ["key"] for another key and "[0]" for the first element
\* of an array; no other context is recorded.  {"a-b":[{}]} with the file
\* "a.json" records 'a.json:root["a-b"][0]' and "a.json:root", and
\* {foo:{bar:3}} without a file records "root.foo" and "root".
C32_OriginPaths ==
  calls # <<>> =>
    LET c == calls[Len(calls)]
    IN \A paths \in {RegisteredPaths(c.x, IF c.file # "" THEN c.file \o ":root" ELSE "root")} :
         /\ \A p \in 1..Len(paths) :
              TimesRecorded(c, paths[p])
                = Cardinality({q \in 1..Len(paths) : paths[q] = paths[p]})
         /\ \A ref \in 1..Len(c.heapAfter) :
              /\ Len(AppendedContexts(c, ref)) <= 4
              /\ \A i \in 1..Len(AppendedContexts(c, ref)) :
                   \E p \in 1..Len(paths) : paths[p] = AppendedContexts(c, ref)[i]
         /\ (c.x = JObject(<<P(kDash, JArray(<<JObject(<<>>)>>))>>) /\ c.file = "a.json") =>
              paths = <<"a.json:root[\"a-b\"][0]", "a.json:root">>
         /\ (c.x = JObject(<<P(kFoo, JObject(<<P(kBar, JNumber("3"))>>))>>) /\ c.file = "") =>
              paths = <<"root.foo", "root">>

\* {"a-b":[{}]} converted with a file label on a cache that already holds
\* the empty object type: the path through the non-identifier key and the
\* array element is appended to the earlier declaration.
C32_Witness ==
  \E i \in 1..Len(calls), ref \in 1..Len(heap) :
    /\ calls[i].x = JObject(<<P(kDash, JArray(<<JObject(<<>>)>>))>>)
    /\ calls[i].file = "a.json"
    /\ ref <= Len(calls[i].heapBefore)
    /\ calls[i].heapAfter[ref].type = ObjectType(<<>>)
    /\ AppendedContexts(calls[i], ref) = <<"a.json:root[\"a-b\"][0]">>

====
